---- MODULE Spec2Model ----
(***************************************************************************)
(* SiteIntel: address extraction, parsing, enrichment, scoring and         *)
(* deduplication (src/app.py, src/api.py).                                  *)
(*                                                                         *)
(* A Python str is modelled as the sequence of its characters, each        *)
(* character a one-element TLA+ string.  Characters outside ASCII are      *)
(* named by their code point ("U+00E9").  A dict is the function from its   *)
(* keys (TLA+ strings) to its values.                                      *)
(***************************************************************************)
EXTENDS Naturals, Integers, Sequences, FiniteSets, TLC

VARIABLES
  world,     \* the environment of a run: [web, geos], the web and the answers the
             \* geocoding service may give
  pc,        \* position of the Streamlit script run (app.py 934-1026)
  opts,      \* the two check boxes: [prefer_hq, extract_multiple]
  sites,     \* the website column of the uploaded sheet, in row order
  idx,       \* rows of the sheet already processed by the loop at app.py 988
  records,   \* the list `records` (app.py 985)
  seen,      \* the dict `seen` (app.py 986): fingerprint -> master id
  raised,    \* an exception left the script run: the run was aborted
  fn,        \* function-level specifications: the function applied last
  arg,       \* function-level specifications: its argument(s)
  ret        \* function-level specifications: its result

vars == <<world, pc, opts, sites, idx, records, seen, raised, fn, arg, ret>>

batchVars == <<pc, opts, sites, idx, records, seen, raised>>
fnVars == <<fn, arg, ret>>

(***************************************************************************)
(* Characters                                                              *)
(***************************************************************************)
UpperAZ == <<"A","B","C","D","E","F","G","H","I","J","K","L","M",
             "N","O","P","Q","R","S","T","U","V","W","X","Y","Z">>
LowerAZ == <<"a","b","c","d","e","f","g","h","i","j","k","l","m",
             "n","o","p","q","r","s","t","u","v","w","x","y","z">>
UpperSet == {UpperAZ[i] : i \in DOMAIN UpperAZ}
LowerSet == {LowerAZ[i] : i \in DOMAIN LowerAZ}
DigitSet == {"0","1","2","3","4","5","6","7","8","9"}
SpaceSet == {" ", "\n", "\t"}

ToUpperMap == [c \in LowerSet |-> UpperAZ[CHOOSE i \in DOMAIN LowerAZ : LowerAZ[i] = c]]
ToLowerMap == [c \in UpperSet |-> LowerAZ[CHOOSE i \in DOMAIN UpperAZ : UpperAZ[i] = c]]

IsDigit(c) == c \in DigitSet
IsAlpha(c) == c \in UpperSet \/ c \in LowerSet
\* regex \w on ASCII text: letters, digits and the underscore
IsWordChar(c) == IsAlpha(c) \/ IsDigit(c) \/ c = "_"
\* regex \s, and what str.strip() and str.split() take for white space
IsSpace(c) == c \in SpaceSet

UpperChar(c) == IF c \in LowerSet THEN ToUpperMap[c] ELSE c
LowerChar(c) == IF c \in UpperSet THEN ToLowerMap[c] ELSE c

(***************************************************************************)
(* str methods and the regular expressions the code uses                   *)
(***************************************************************************)
StrUpper(s) == [i \in 1..Len(s) |-> UpperChar(s[i])]
StrLower(s) == [i \in 1..Len(s) |-> LowerChar(s[i])]

RECURSIVE Concat(_)
Concat(ss) == IF ss = <<>> THEN <<>> ELSE Head(ss) \o Concat(Tail(ss))

RECURSIVE Join(_, _)
\* sep.join(ss)
Join(sep, ss) ==
  IF ss = <<>> THEN <<>>
  ELSE IF Len(ss) = 1 THEN ss[1]
  ELSE ss[1] \o sep \o Join(sep, Tail(ss))

\* s[i:] with i counted from 1
From(s, i) == SubSeq(s, i, Len(s))

\* s.startswith(p), and p at position i of s
MatchAt(s, i, p) == i + Len(p) - 1 <= Len(s) /\ SubSeq(s, i, i + Len(p) - 1) = p
StartsWith(s, p) == MatchAt(s, 1, p)
\* p in s
Contains(s, p) == \E i \in 1..(Len(s) + 1) : MatchAt(s, i, p)

\* s.lstrip(chars), s.rstrip(chars), s.strip(chars) for a set of characters
LStripSet(s, cs) ==
  IF \A i \in DOMAIN s : s[i] \in cs THEN <<>>
  ELSE From(s, CHOOSE i \in DOMAIN s : s[i] \notin cs /\ \A j \in 1..(i - 1) : s[j] \in cs)
RStripSet(s, cs) ==
  IF \A i \in DOMAIN s : s[i] \in cs THEN <<>>
  ELSE SubSeq(s, 1, CHOOSE i \in DOMAIN s : s[i] \notin cs /\ \A j \in (i + 1)..Len(s) : s[j] \in cs)
StripSet(s, cs) == RStripSet(LStripSet(s, cs), cs)
\* s.strip()
Strip(s) == StripSet(s, SpaceSet)

\* The maximal pieces of s between separators (characters for which IsSep holds),
\* empty pieces included: re.split(r",|;|\n", s), s.split(","), s.splitlines()
\* up to the last empty piece.
RECURSIVE SplitOn(_, _)
SplitOn(s, seps) ==
  IF \A i \in DOMAIN s : s[i] \notin seps THEN <<s>>
  ELSE LET k == CHOOSE i \in DOMAIN s : s[i] \in seps /\ \A j \in 1..(i - 1) : s[j] \notin seps
       IN  <<SubSeq(s, 1, k - 1)>> \o SplitOn(From(s, k + 1), seps)

NonEmpty(ss) == SelectSeq(ss, LAMBDA p : p # <<>>)
StripAll(ss) == [i \in 1..Len(ss) |-> Strip(ss[i])]

\* s.split(): the maximal runs of non-space characters
Tokens(s) == NonEmpty(SplitOn(s, SpaceSet))

\* s.splitlines(): the lines of s; no empty last line after a final line break
SplitLines(s) ==
  LET ps == SplitOn(s, {"\n"})
  IN  IF ps[Len(ps)] = <<>> THEN SubSeq(ps, 1, Len(ps) - 1) ELSE ps

\* regex \b at the gap before position i of s (1..Len(s)+1)
IsBoundary(s, i) ==
  LET before == i > 1 /\ IsWordChar(s[i - 1])
      after  == i <= Len(s) /\ IsWordChar(s[i])
  IN  before # after

\* re.sub(rf"\b{k}\b", v, s, flags=re.I): every non-overlapping match, left to right
RECURSIVE SubWordFrom(_, _, _, _)
SubWordFrom(s, i, k, v) ==
  IF i > Len(s) THEN <<>>
  ELSE IF /\ i + Len(k) - 1 <= Len(s)
          /\ StrUpper(SubSeq(s, i, i + Len(k) - 1)) = StrUpper(k)
          /\ IsBoundary(s, i)
          /\ IsBoundary(s, i + Len(k))
       THEN v \o SubWordFrom(s, i + Len(k), k, v)
       ELSE <<s[i]>> \o SubWordFrom(s, i + 1, k, v)
SubWord(s, k, v) == SubWordFrom(s, 1, k, v)

\* s.replace(old, ""): every non-overlapping occurrence of old removed
RECURSIVE RemoveAll(_, _)
RemoveAll(s, old) ==
  IF s = <<>> \/ old = <<>> THEN s
  ELSE IF StartsWith(s, old) THEN RemoveAll(From(s, Len(old) + 1), old)
  ELSE <<Head(s)>> \o RemoveAll(Tail(s), old)

AllDigits(s) == \A i \in DOMAIN s : IsDigit(s[i])

(***************************************************************************)
(* unidecode: ASCII stays, a letter with a diacritic goes to its base      *)
(* letter(s), other symbols to their ASCII spelling.                       *)
(***************************************************************************)
UnidecodeChar(c) ==
  CASE c = "U+00E9" -> <<"e">>          \* e with acute
    [] c = "U+00DC" -> <<"U">>          \* U with diaeresis
    [] c = "U+00DF" -> <<"s","s">>      \* sharp s
    [] c = "U+2013" -> <<"-">>          \* en dash
    [] OTHER -> <<c>>
unidecode(s) == Concat([i \in 1..Len(s) |-> UnidecodeChar(s[i])])

\* A faulty removal of punctuation: commas stay.
DropPunct_keeping_commas(s) ==
  SelectSeq(s, LAMBDA c : IsWordChar(c) \/ IsSpace(c) \/ c = ",")

\* re.sub(r"[^\w\s]", "", s)
DropPunct(s) == SelectSeq(s, LAMBDA c : IsWordChar(c) \/ IsSpace(c))

\* A faulty collapse of white space: the text is left as it is, line breaks
\* included.
CollapseSpace_keeping_lines(s) == s

\* re.sub(r"\s+", " ", s)
CollapseSpace(s) ==
  LET ix   == [i \in 1..Len(s) |-> i]
      kept == SelectSeq(ix, LAMBDA i : ~(IsSpace(s[i]) /\ i > 1 /\ IsSpace(s[i - 1])))
  IN  [k \in 1..Len(kept) |-> IF IsSpace(s[kept[k]]) THEN " " ELSE s[kept[k]]]

\* A faulty normalization: white space is collapsed before punctuation is dropped.
normalize_text_collapsing_first(text) ==
  Strip(DropPunct(CollapseSpace(StrUpper(unidecode(text)))))

\* app.py 43-47
normalize_text(text) == Strip(CollapseSpace(DropPunct(StrUpper(unidecode(text)))))

(***************************************************************************)
(* Python values that are not str.  A JSON number is the sequence of its   *)
(* digits after the tag "<int>", None is the one-element sequence          *)
(* <<"<None>">>; no character is spelled like a tag.                       *)
(***************************************************************************)
NoneVal == <<"<None>">>
IntVal(digits) == <<"<int>">> \o digits
IsStr(v) == v = <<>> \/ (v[1] # "<int>" /\ v[1] # "<None>")
\* bool(v): "" and None are false, a non-empty str and a non-zero number true
Truthy(v) == v # <<>> /\ v # NoneVal

(***************************************************************************)
(* Address dicts                                                           *)
(***************************************************************************)
AddrKeys == {"STREET ADDRESS 1", "STREET ADDRESS 2", "CITY", "STATE", "PIN CODE", "COUNTRY"}
\* app.py 377-384
EmptyAddr == [k \in AddrKeys |-> <<>>]

\* app.py 26-30, in the dict's order
SHORT_FORMS == <<
  << <<"R","D">>,         <<"R","O","A","D">> >>,
  << <<"S","T">>,         <<"S","T","R","E","E","T">> >>,
  << <<"A","V","E">>,     <<"A","V","E","N","U","E">> >>,
  << <<"B","L","V","D">>, <<"B","O","U","L","E","V","A","R","D">> >>,
  << <<"D","R">>,         <<"D","R","I","V","E">> >>,
  << <<"L","N">>,         <<"L","A","N","E">> >>,
  << <<"P","L">>,         <<"P","L","A","C","E">> >> >>

\* for k, v in FORMS.items(): r = re.sub(rf"\b{k}\b", v, r, flags=re.I)
RECURSIVE ExpandForms(_, _)
ExpandForms(r, forms) ==
  IF forms = <<>> THEN r
  ELSE ExpandForms(SubWord(r, forms[1][1], forms[1][2]), Tail(forms))

\* re.search(r"(\d{5}(?:-\d{4})?)", s).group(1), or <<>> when nothing matches:
\* the leftmost five digits, with a following -dddd when there is one
PostalMatch(s) ==
  LET starts == {i \in 1..(Len(s) - 4) : AllDigits(SubSeq(s, i, i + 4))}
  IN  IF starts = {} THEN <<>>
      ELSE LET i == CHOOSE i \in starts : \A j \in starts : i <= j
               ext == /\ i + 9 <= Len(s)
                      /\ s[i + 5] = "-"
                      /\ AllDigits(SubSeq(s, i + 6, i + 9))
           IN  SubSeq(s, i, IF ext THEN i + 9 ELSE i + 4)

\* A faulty first step of the parser: street line 1 is left empty.
SetStreet1_skipping(out, parts) == out

\* app.py 392-393
SetStreet1(out, parts) ==
  IF parts # <<>> THEN [out EXCEPT !["STREET ADDRESS 1"] = parts[1]] ELSE out

\* app.py 400-405: tokens = [t.strip() for t in last.split() if t.strip()]
SetStateOrCountry(out, tokens) ==
  IF tokens = <<>> THEN out
  ELSE IF Len(tokens) = 1 /\ Len(tokens[1]) <= 3 THEN [out EXCEPT !["STATE"] = tokens[1]]
  ELSE [out EXCEPT !["COUNTRY"] = tokens[Len(tokens)]]

\* app.py 396-399: m is m.group(1) of the postal-code search in `last`, <<>> when
\* there is no match
SetPinCode(out, last, m) ==
  IF m # <<>>
  THEN SetStateOrCountry([out EXCEPT !["PIN CODE"] = m], Tokens(Strip(RemoveAll(last, m))))
  ELSE SetStateOrCountry(out, Tokens(last))

\* app.py 394-405
SetFromLast(out, parts) ==
  IF Len(parts) >= 2
  THEN SetPinCode(out, parts[Len(parts)], PostalMatch(parts[Len(parts)]))
  ELSE out

\* app.py 406-407
SetCity(out, parts) ==
  IF Len(parts) >= 3 THEN [out EXCEPT !["CITY"] = parts[Len(parts) - 1]] ELSE out

\* app.py 391-409: parts = [p.strip() for p in re.split(r",|;|\n", r) if p.strip()]
ParseParts(parts) == SetCity(SetFromLast(SetStreet1(EmptyAddr, parts), parts), parts)

\* app.py 376-409
standardize_address_dict(raw) ==
  IF raw = <<>> THEN EmptyAddr
  ELSE ParseParts(NonEmpty(StripAll(SplitOn(ExpandForms(normalize_text(raw), SHORT_FORMS),
                                            {",", ";", "\n"}))))

\* api.py 26-29, in the dict's order
short_forms == SHORT_FORMS \o <<
  << <<"C","T">>,         <<"C","O","U","R","T">> >>,
  << <<"P","K","W","Y">>, <<"P","A","R","K","W","A","Y">> >>,
  << <<"S","Q">>,         <<"S","Q","U","A","R","E">> >> >>

USA == <<"U","N","I","T","E","D"," ","S","T","A","T","E","S"," ","O","F"," ","A","M","E","R","I","C","A">>
UKGBNI == <<"U","N","I","T","E","D"," ","K","I","N","G","D","O","M"," ","O","F"," ",
            "G","R","E","A","T"," ","B","R","I","T","A","I","N"," ","A","N","D"," ",
            "N","O","R","T","H","E","R","N"," ","I","R","E","L","A","N","D">>
KOREA == <<"K","O","R","E","A"," ","(","R","E","P","U","B","L","I","C"," ","O","F",")">>

\* api.py 31-38, in the dict's order
standard_countries == <<
  << <<"U","S","A">>, USA >>,
  << <<"U","S">>, USA >>,
  << <<"U","N","I","T","E","D"," ","S","T","A","T","E","S">>, USA >>,
  << <<"U","K">>, UKGBNI >>,
  << <<"U","N","I","T","E","D"," ","K","I","N","G","D","O","M">>, UKGBNI >>,
  << <<"C","H","I","N","A">>, <<"C","H","I","N","A">> >>,
  << <<"R","U","S","S","I","A">>, <<"R","U","S","S","I","A","N"," ","F","E","D","E","R","A","T","I","O","N">> >>,
  << <<"S","O","U","T","H"," ","K","O","R","E","A">>, KOREA >>,
  << <<"K","O","R","E","A">>, KOREA >> >>

\* api.py 40-43
us_states == <<
  << <<"A","L","A","B","A","M","A">>, <<"A","L">> >>,
  << <<"A","L","A","S","K","A">>, <<"A","K">> >>,
  << <<"A","R","I","Z","O","N","A">>, <<"A","Z">> >>,
  << <<"C","A","L","I","F","O","R","N","I","A">>, <<"C","A">> >>,
  << <<"N","E","W"," ","Y","O","R","K">>, <<"N","Y">> >>,
  << <<"T","E","X","A","S">>, <<"T","X">> >>,
  << <<"F","L","O","R","I","D","A">>, <<"F","L">> >>,
  << <<"I","L","L","I","N","O","I","S">>, <<"I","L">> >> >>

\* d.get(key, default) for a dict given as the sequence of its (key, value) pairs
DictGet(d, key, default) ==
  IF \E i \in DOMAIN d : d[i][1] = key
  THEN d[CHOOSE i \in DOMAIN d : d[i][1] = key][2]
  ELSE default

\* api.py 78-80: for key, value in standard_countries.items():
\*                 if country.startswith(key): country = value
RECURSIVE CanonCountry(_, _)
CanonCountry(country, table) ==
  IF table = <<>> THEN country
  ELSE CanonCountry(IF StartsWith(country, table[1][1]) THEN table[1][2] ELSE country,
                    Tail(table))

\* api.py 71-76: parts[i - 1] if len(parts) > i - 1 else ""
Part(parts, i) == IF Len(parts) >= i THEN parts[i] ELSE <<>>

\* api.py 82-83
StateOf(country, state) ==
  IF country = USA THEN DictGet(us_states, state, state) ELSE state

\* api.py 78-92
AddressOf(parts, country) ==
  [k \in AddrKeys |->
    CASE k = "STREET ADDRESS 1" -> Part(parts, 1)
      [] k = "STREET ADDRESS 2" -> Part(parts, 2)
      [] k = "CITY"     -> Part(parts, 3)
      [] k = "STATE"    -> StateOf(country, Part(parts, 4))
      [] k = "PIN CODE" -> Part(parts, 5)
      [] k = "COUNTRY"  -> country]

\* api.py 70-92: parts = [p.strip() for p in address.split(",")]
SplitAddress(parts) == AddressOf(parts, CanonCountry(Part(parts, 6), standard_countries))

\* api.py 65-92.  The text is upper case when the short forms are replaced, so the
\* case-sensitive re.sub of api.py 68 and SubWord replace the same words.
standardize_address(raw_address) ==
  SplitAddress(StripAll(SplitOn(ExpandForms(StrUpper(unidecode(raw_address)), short_forms),
                                {","})))

(***************************************************************************)
(* Confidence score and fingerprint                                        *)
(***************************************************************************)
Min(a, b) == IF a <= b THEN a ELSE b

\* A faulty score: every field other than street line 1 weighs 20.
calculate_confidence_20(addr) ==
  Min( (IF Truthy(addr["STREET ADDRESS 1"]) THEN 40 ELSE 0)
     + (IF Truthy(addr["CITY"]) THEN 20 ELSE 0)
     + (IF Truthy(addr["STATE"]) THEN 20 ELSE 0)
     + (IF Truthy(addr["PIN CODE"]) THEN 20 ELSE 0)
     + (IF Truthy(addr["COUNTRY"]) THEN 20 ELSE 0), 100)

\* app.py 859-873
calculate_confidence(addr) ==
  Min( (IF Truthy(addr["STREET ADDRESS 1"]) THEN 40 ELSE 0)
     + (IF Truthy(addr["CITY"]) THEN 15 ELSE 0)
     + (IF Truthy(addr["STATE"]) THEN 15 ELSE 0)
     + (IF Truthy(addr["PIN CODE"]) THEN 15 ELSE 0)
     + (IF Truthy(addr["COUNTRY"]) THEN 15 ELSE 0), 100)

\* the five fields of the fingerprint, in the order of app.py 50-56
HashKeys == <<"STREET ADDRESS 1", "CITY", "STATE", "PIN CODE", "COUNTRY">>

\* app.py 50-56: the joined key
hash_key(addr) == Join(<<"|">>, [i \in 1..Len(HashKeys) |-> addr[HashKeys[i]]])
\* "|".join raises TypeError when a field is not a str
hash_raises(addr) == \E i \in DOMAIN HashKeys : ~IsStr(addr[HashKeys[i]])
\* app.py 57: hashlib.md5(key.encode()).hexdigest().  The digest is not computed:
\* it is a value determined by the key, different keys having different digests.
hash_address(addr) == <<"md5", hash_key(addr)>>
\* h[:8] (app.py 1010): the first eight hex digits of the digest h, a value
\* determined by h.
Prefix8(h) == <<"md5[:8]", h[2]>>

(***************************************************************************)
(* Enrichment.  The geocoding service is outside the program: its answer   *)
(* is an input of the operators below.                                     *)
(*   Nominatim answer: [kind, address]                                     *)
(*     kind "error"      requests.get or res.json() raises                 *)
(*     kind "empty"      the JSON is an empty list                         *)
(*     kind "malformed"  data[0].get("address", {}) raises                 *)
(*     kind "hit"        data[0]["address"] is the dict `address`, whose   *)
(*                       absent keys read as None                          *)
(***************************************************************************)
NominatimKeys == {"city", "state", "postcode", "country"}

\* app.py 413-414
nominatim_query(record) ==
  StripSet(Strip(Join(<<",", " ">>, <<record["STREET ADDRESS 1"], record["CITY"],
                                      record["STATE"], record["COUNTRY"]>>)), {","})

\* app.py 415-416: the service is called unless the query is empty
nominatim_called(record) == nominatim_query(record) # <<>>

\* One `if not record.get(K) and addr.get(k): record[K] = addr.get(k).upper()`
\* (app.py 423-426, 429-430) on the state st = [rec, exc] of the try block;
\* .upper() raises when the value is not a str.
FillUpper(st, K, addr, k) ==
  IF st.exc \/ Truthy(st.rec[K]) \/ ~Truthy(addr[k]) THEN st
  ELSE IF IsStr(addr[k]) THEN [st EXCEPT !.rec[K] = StrUpper(addr[k])]
  ELSE [st EXCEPT !.exc = TRUE]

\* app.py 427-428: the postcode is stored as it came
FillRaw(st, K, addr, k) ==
  IF st.exc \/ Truthy(st.rec[K]) \/ ~Truthy(addr[k]) THEN st
  ELSE [st EXCEPT !.rec[K] = addr[k]]

\* app.py 412-434.  The dict `record` is updated in place and returned; an exception
\* inside the try block ends the block and keeps what was stored before it.
enrich_with_nominatim(record, geo) ==
  IF ~nominatim_called(record) THEN record
  ELSE IF geo.kind # "hit" THEN record
  ELSE FillUpper(FillRaw(FillUpper(FillUpper([rec |-> record, exc |-> FALSE],
                                             "CITY", geo.address, "city"),
                                   "STATE", geo.address, "state"),
                         "PIN CODE", geo.address, "postcode"),
                 "COUNTRY", geo.address, "country").rec

(***************************************************************************)
(*   Google answer: [kind, status, components]                             *)
(*     kind "error"      requests.get or response.json() raises            *)
(*     kind "json"       data['status'] is `status`; when it is "OK",      *)
(*                       data['results'][0]['address_components'] is the   *)
(*                       list `components` of [types, long_name], where    *)
(*                       long_name = NoneVal stands for a missing key      *)
(***************************************************************************)
\* The address components are read on the state st = [rec, exc] of the try block;
\* reading comp['long_name'] raises KeyError when the key is missing, .upper()
\* raises when the value is not a str.

\* api.py 103-104
SetLocality(st, comp) ==
  IF st.exc \/ "locality" \notin comp.types THEN st
  ELSE IF ~IsStr(comp.long_name) THEN [st EXCEPT !.exc = TRUE]
  ELSE [st EXCEPT !.rec["CITY"] = StrUpper(comp.long_name)]

\* api.py 105-107
SetArea(st, comp) ==
  IF st.exc \/ "administrative_area_level_1" \notin comp.types THEN st
  ELSE IF ~IsStr(comp.long_name) THEN [st EXCEPT !.exc = TRUE]
  ELSE [st EXCEPT !.rec["STATE"] =
          DictGet(us_states, StrUpper(comp.long_name), StrUpper(comp.long_name))]

\* api.py 108-109
SetCountry(st, comp) ==
  IF st.exc \/ "country" \notin comp.types THEN st
  ELSE IF ~IsStr(comp.long_name) THEN [st EXCEPT !.exc = TRUE]
  ELSE [st EXCEPT !.rec["COUNTRY"] =
          DictGet(standard_countries, StrUpper(comp.long_name), StrUpper(comp.long_name))]

\* api.py 110-111
SetPostalCode(st, comp) ==
  IF st.exc \/ "postal_code" \notin comp.types THEN st
  ELSE IF comp.long_name = NoneVal THEN [st EXCEPT !.exc = TRUE]
  ELSE [st EXCEPT !.rec["PIN CODE"] = comp.long_name]

\* api.py 103-111: one address component
GoogleComponent(st, comp) ==
  SetPostalCode(SetCountry(SetArea(SetLocality(st, comp), comp), comp), comp)

RECURSIVE GoogleComponents(_, _)
GoogleComponents(st, comps) ==
  IF comps = <<>> THEN st
  ELSE GoogleComponents(GoogleComponent(st, comps[1]), Tail(comps))

\* api.py 94-114
enrich_with_google_maps(address, geo) ==
  IF geo.kind # "json" \/ geo.status # "OK" THEN address
  ELSE GoogleComponents([rec |-> address, exc |-> FALSE], geo.components).rec

(***************************************************************************)
(* The address candidate classifier                                        *)
(***************************************************************************)
\* app.py 93: the alternatives of STREET_KEYWORDS
STREET_KEYWORDS == <<
  <<"S","T","R","E","E","T">>,
  <<"S","T",".">>,
  <<"R","O","A","D">>,
  <<"R","D",".">>,
  <<"A","V","E">>,
  <<"A","V","E","N","U","E">>,
  <<"B","O","U","L","E","V","A","R","D">>,
  <<"B","L","V","D">>,
  <<"D","R">>,
  <<"D","R","I","V","E">>,
  <<"L","A","N","E">>,
  <<"L","N">>,
  <<"W","A","Y">>,
  <<"T","E","R","R","A","C","E">>,
  <<"P","L","A","Z","A">>,
  <<"P","L">>,
  <<"C","O","U","R","T">>,
  <<"C","T">> >>

\* app.py 94-97
EXCLUDE_SALES_KEYWORDS == <<
  <<"s","t","o","r","e">>,
  <<"s","t","o","r","e","s">>,
  <<"l","o","c","a","t","i","o","n">>,
  <<"l","o","c","a","t","i","o","n","s">>,
  <<"d","e","a","l","e","r">>,
  <<"r","e","t","a","i","l">>,
  <<"s","h","o","p">>,
  <<"f","r","a","n","c","h","i","s","e">>,
  <<"o","u","t","l","e","t">>,
  <<"d","i","s","t","r","i","b","u","t","o","r">>,
  <<"s","a","l","e","s">> >>

\* any(k in low for k in EXCLUDE_SALES_KEYWORDS)
HasSalesKeyword(low) == \E i \in DOMAIN EXCLUDE_SALES_KEYWORDS : Contains(low, EXCLUDE_SALES_KEYWORDS[i])

\* re.search(r"\d{1,5}", t)
HasNumber(t) == \E i \in DOMAIN t : IsDigit(t[i])

\* re.search(r"\b\d{5}(?:-\d{4})?\b", t)
HasZip(t) ==
  \E i \in 1..(Len(t) - 4) :
    /\ IsBoundary(t, i)
    /\ AllDigits(SubSeq(t, i, i + 4))
    /\ \/ IsBoundary(t, i + 5)
       \/ /\ i + 9 <= Len(t)
          /\ t[i + 5] = "-"
          /\ AllDigits(SubSeq(t, i + 6, i + 9))
          /\ IsBoundary(t, i + 10)

\* re.search(r"\b[A-Z]{1,2}\d[A-Z\d]?\s*\d[A-Z]{2}\b", t, re.I): a match starts at
\* i with a letters, has o optional characters and w white-space characters
HasUkPostcode(t) ==
  \E i \in DOMAIN t : \E a \in 1..2 : \E o \in 0..1 : \E w \in 0..Len(t) :
    LET d1 == i + a            \* the first digit
        sp == d1 + 1 + o       \* where the white space starts
        d2 == sp + w           \* the second digit
    IN  /\ d2 + 2 <= Len(t)
        /\ IsBoundary(t, i)
        /\ \A j \in i..(d1 - 1) : IsAlpha(t[j])
        /\ IsDigit(t[d1])
        /\ o = 1 => (IsAlpha(t[d1 + 1]) \/ IsDigit(t[d1 + 1]))
        /\ \A j \in sp..(d2 - 1) : IsSpace(t[j])
        /\ IsDigit(t[d2])
        /\ IsAlpha(t[d2 + 1]) /\ IsAlpha(t[d2 + 2])
        /\ IsBoundary(t, d2 + 3)

\* re.search(STREET_KEYWORDS, t, re.I)
HasStreet(t) ==
  LET u == StrUpper(t)
  IN  \E i \in DOMAIN t : \E k \in DOMAIN STREET_KEYWORDS :
        /\ MatchAt(u, i, STREET_KEYWORDS[k])
        /\ IsBoundary(t, i)
        /\ IsBoundary(t, i + Len(STREET_KEYWORDS[k]))

\* app.py 367: the longest text the classifier accepts
MaxCandidateLen == 300
\* app.py 356: the shortest text the classifier accepts
MinCandidateLen == 10

\* app.py 350-373
is_strict_address_candidate(text) ==
  LET t == Strip(text)
      low == StrLower(t)
  IN  /\ Len(t) >= MinCandidateLen
      /\ (HasNumber(t) /\ HasStreet(t)) \/ HasZip(t) \/ HasUkPostcode(t)
      /\ Len(t) <= MaxCandidateLen
      /\ ~Contains(t, <<"@">>)
      /\ ~StartsWith(low, <<"n","e","w","s">>)
      /\ ~StartsWith(low, <<"d","a","t","a">>)

(***************************************************************************)
(* URLs and page discovery                                                 *)
(***************************************************************************)
HTTP == <<"h","t","t","p">>
HTTPS_PREFIX == <<"h","t","t","p","s",":","/","/">>

\* app.py 84-90
ensure_scheme(url) ==
  IF url = <<>> THEN <<>>
  ELSE LET u == Strip(url)
       IN  IF ~StartsWith(u, HTTP) THEN HTTPS_PREFIX \o LStripSet(u, {"/"}) ELSE u

\* app.py 100-104
PREFERRED_PAGE_KEYWORDS == <<
  <<"c","o","n","t","a","c","t">>,
  <<"c","o","n","t","a","c","t","-","u","s">>,
  <<"c","o","n","t","a","c","t","u","s">>,
  <<"a","b","o","u","t">>,
  <<"a","b","o","u","t","-","u","s">>,
  <<"a","b","o","u","t","u","s">>,
  <<"h","e","a","d">>,
  <<"h","e","a","d","-","o","f","f","i","c","e">>,
  <<"h","e","a","d","q","u","a","r","t","e","r","s">>,
  <<"h","q">>,
  <<"o","f","f","i","c","e">>,
  <<"o","f","f","i","c","e","s">>,
  <<"l","o","c","a","t","i","o","n","s">>,
  <<"l","o","c","a","t","i","o","n">>,
  <<"p","l","a","n","t">>,
  <<"p","l","a","n","t","s">>,
  <<"m","a","n","u","f","a","c","t","u","r","i","n","g">>,
  <<"f","a","c","t","o","r","y">>,
  <<"s","i","t","e">>,
  <<"f","a","c","i","l","i","t","y">> >>

\* app.py 106-110
CANDIDATE_PATHS == <<
  <<"/","c","o","n","t","a","c","t">>,
  <<"/","c","o","n","t","a","c","t","-","u","s">>,
  <<"/","a","b","o","u","t">>,
  <<"/","a","b","o","u","t","-","u","s">>,
  <<"/","l","o","c","a","t","i","o","n","s">>,
  <<"/","l","o","c","a","t","i","o","n">>,
  <<"/","o","f","f","i","c","e","s">>,
  <<"/","h","e","a","d","-","o","f","f","i","c","e">>,
  <<"/","h","e","a","d","q","u","a","r","t","e","r","s">>,
  <<"/","h","q">>,
  <<"/","p","l","a","n","t","s">>,
  <<"/","m","a","n","u","f","a","c","t","u","r","i","n","g">>,
  <<"/","f","a","c","t","o","r","y">>,
  <<"/","s","i","t","e">>,
  <<"/","f","a","c","i","l","i","t","y">> >>

\* any(k in lp for k in PREFERRED_PAGE_KEYWORDS), lp = p.lower()
IsPreferred(p) ==
  LET lp == StrLower(p)
  IN  \E i \in DOMAIN PREFERRED_PAGE_KEYWORDS : Contains(lp, PREFERRED_PAGE_KEYWORDS[i])

\* the elements of a list
Range(f) == {f[i] : i \in DOMAIN f}

\* A list without its repeats, first occurrences kept in order
Dedupe(ps) ==
  LET first == SelectSeq([i \in 1..Len(ps) |-> i],
                         LAMBDA i : \A j \in 1..(i - 1) : ps[j] # ps[i])
  IN  [k \in 1..Len(first) |-> ps[first[k]]]

Take(ps, n) == SubSeq(ps, 1, Min(n, Len(ps)))

(***************************************************************************)
(* The web.  A web is a function from URLs to responses; requests.get of a *)
(* URL outside its domain raises (unreachable host, timeout, bad URL).     *)
(* A response is the parsed document: the list of its elements in          *)
(* document order, each [tag, text, href] with tag "address", "p" or "a".  *)
(* A response with ok = FALSE stands for a request that raises.            *)
(***************************************************************************)
Fail == [ok |-> FALSE, blocks |-> <<>>]
Page(blocks) == [ok |-> TRUE, blocks |-> blocks]
Address(text) == [tag |-> "address", text |-> text, href |-> <<>>]
Para(text) == [tag |-> "p", text |-> text, href |-> <<>>]
Anchor(href) == [tag |-> "a", text |-> <<>>, href |-> href]

\* requests.get(url, ...) / requests.post(url, ...)
Get(web, url) == IF url \in DOMAIN web THEN web[url] ELSE Fail

\* soup.get_text(" ", strip=True)
GetText(r) == Join(<<" ">>, NonEmpty([i \in 1..Len(r.blocks) |-> Strip(r.blocks[i].text)]))
\* [tag.get_text(" ", strip=True) for tag in soup.find_all("address")]
AddressTexts(r) ==
  LET tags == SelectSeq(r.blocks, LAMBDA b : b.tag = "address")
  IN  [i \in 1..Len(tags) |-> Strip(tags[i].text)]
\* [a["href"] for a in soup.find_all("a", href=True)]
Hrefs(r) ==
  LET as == SelectSeq(r.blocks, LAMBDA b : b.tag = "a")
  IN  [i \in 1..Len(as) |-> as[i].href]

\* A faulty handler: the exception leaves the function that holds the try block.
raise_Exception(st) == [st EXCEPT !.exc = TRUE]

\* `except Exception: pass` and `except Exception: continue` (app.py 127-128,
\* 220-223, 250-253, 318-321, 342-345): the exception ends the try block and is
\* dropped.  st is the state of the function that holds the try block.
except_Exception(st) == st

\* re.sub(r"https?://", "", website)
RECURSIVE DropSchemes(_)
DropSchemes(s) ==
  IF s = <<>> THEN <<>>
  ELSE IF StartsWith(s, HTTPS_PREFIX) THEN DropSchemes(From(s, 9))
  ELSE IF StartsWith(s, <<"h","t","t","p",":","/","/">>) THEN DropSchemes(From(s, 8))
  ELSE <<Head(s)>> \o DropSchemes(Tail(s))

\* app.py 162: re.sub(r"https?://", "", website).split("/", 1)[0]
DomainOf(website) == SplitOn(DropSchemes(website), {"/"})[1]

\* app.py 120-124: one link of the homepage
AddLink(pages, href, home) ==
  IF StartsWith(href, <<"/">>) THEN Append(pages, RStripSet(home, {"/"}) \o href)
  ELSE IF StartsWith(href, HTTP) THEN Append(pages, href)
  ELSE pages

RECURSIVE HomeLinks(_, _, _, _, _)
\* app.py 125-126: the loop ends when `pages` holds max_pages distinct pages
NextLink(hrefs, i, home, max_pages, pages) ==
  IF Cardinality(Range(pages)) >= max_pages THEN pages
  ELSE HomeLinks(hrefs, i + 1, home, max_pages, pages)

\* app.py 119-126: the loop over the homepage's links, from link i on
HomeLinks(hrefs, i, home, max_pages, pages) ==
  IF i > Len(hrefs) THEN pages
  ELSE NextLink(hrefs, i, home, max_pages, AddLink(pages, Strip(hrefs[i]), home))

\* app.py 115-128: the homepage is fetched, as [pages, exc, log]
FetchHome(web, home, max_pages) ==
  IF ~Get(web, home).ok
  THEN except_Exception([pages |-> <<home>>, exc |-> FALSE, log |-> <<home>>])
  ELSE [pages |-> HomeLinks(Hrefs(Get(web, home)), 1, home, max_pages, <<home>>),
        exc |-> FALSE, log |-> <<home>>]

\* app.py 130-133
AddCandidatePaths(pages, home) ==
  pages \o [i \in 1..Len(CANDIDATE_PATHS) |-> RStripSet(home, {"/"}) \o CANDIDATE_PATHS[i]]

\* A faulty ordering: repeated pages are kept.
Ordered_keeping_repeats(pages, max_pages) ==
  Take(SelectSeq(pages, IsPreferred) \o SelectSeq(pages, LAMBDA p : ~IsPreferred(p)), max_pages)

\* A faulty ordering: the pages stay in the order of their discovery.
Ordered_as_discovered(pages, max_pages) == Take(Dedupe(pages), max_pages)

\* app.py 135-151
Ordered(pages, max_pages) == Take(Dedupe(SelectSeq(pages, IsPreferred) \o pages), max_pages)

\* app.py 130-151 on the state st = [pages, exc, log] after the try block
Discovered(st, home, max_pages) ==
  [pages |-> IF st.exc THEN <<>> ELSE Ordered(AddCandidatePaths(st.pages, home), max_pages),
   exc |-> st.exc, log |-> st.log]

\* app.py 113-151: [pages, exc, log], log the requests made
find_pages_from_home(web, home_url, max_pages) ==
  Discovered(FetchHome(web, ensure_scheme(home_url), max_pages),
             ensure_scheme(home_url), max_pages)

(***************************************************************************)
(* Single-result extraction (app.py 154-255).  The state of a run is       *)
(* [visited, log, found, raw, page, exc]: the set `visited`, the requests  *)
(* made so far, whether a return statement was reached and with what, and  *)
(* whether an exception left the function.                                 *)
(***************************************************************************)
\* app.py 163: max_pages of single-result extraction
SinglePages == 12
\* app.py 207: internal links followed per page
LinksPerPage == 6
\* app.py 238: search results followed
SearchResults == 6

DDG_URL == <<"h","t","t","p","s",":","/","/","h","t","m","l",".","d","u","c","k","d","u","c","k","g","o",".","c","o","m","/","h","t","m","l","/">>

\* The first line of `lines` that Accept takes, as [found, line]
FirstLine(lines, Accept(_)) ==
  LET ok == {i \in DOMAIN lines : Accept(lines[i])}
  IN  IF ok = {} THEN [found |-> FALSE, line |-> <<>>]
      ELSE [found |-> TRUE, line |-> lines[CHOOSE i \in ok : \A j \in ok : i <= j]]

\* app.py 188-197: a line of a discovered page is returned
AcceptPageLine(line, prefer_hq) ==
  /\ Len(line) >= 10
  /\ is_strict_address_candidate(Strip(line))
  /\ ~(prefer_hq /\ HasSalesKeyword(StrLower(Strip(line))))

\* A faulty filter: a line of a linked page or of a search result is returned
\* whatever keyword it holds.
AcceptLinkLine_unfiltered(line, prefer_hq) == is_strict_address_candidate(line)

\* app.py 215-218, 245-248: a line of a linked page or of a search result is returned
AcceptLinkLine(line, prefer_hq) ==
  /\ is_strict_address_candidate(line)
  /\ ~(prefer_hq /\ HasSalesKeyword(StrLower(line)))

Return(st, raw, page) == [st EXCEPT !.found = TRUE, !.raw = raw, !.page = page]

\* visited.add(page) and the request for `url` that follows it
Visited(st, page, url) == [st EXCEPT !.visited = @ \cup {page}, !.log = Append(@, url)]

\* a request for `url`
Logged(st, url) == [st EXCEPT !.log = Append(@, url)]

\* app.py 200-205, 302-308: one link of a page
InternalLink(href, domain) ==
  IF StartsWith(href, <<"/">>) THEN <<ensure_scheme(domain \o href)>>
  ELSE IF StartsWith(href, HTTP) /\ Contains(href, domain) THEN <<href>>
  ELSE <<>>

RECURSIVE LinksOf(_, _, _)
LinksOf(hrefs, i, domain) ==
  IF i > Len(hrefs) THEN <<>>
  ELSE InternalLink(Strip(hrefs[i]), domain) \o LinksOf(hrefs, i + 1, domain)

\* app.py 199-205, 301-308: the internal links of a page
InternalLinks(r, domain) == LinksOf(Hrefs(r), 1, domain)

\* app.py 214-219, 244-249: hit is the first line of the page that is returned
ReturnHit(st, hit, page) ==
  IF hit.found THEN Return(st, normalize_text(hit.line), page) ELSE st

\* app.py 211-221, 241-251: a linked page or a search result is fetched and scanned
ScanLink(web, link, prefer_hq, st) ==
  IF ~Get(web, link).ok THEN except_Exception(st)
  ELSE ReturnHit(st, FirstLine(SplitLines(GetText(Get(web, link))),
                               LAMBDA l : AcceptLinkLine(l, prefer_hq)), link)

\* app.py 207-221: the loop over the first links of a page, from link i on
RECURSIVE CrawlLinks(_, _, _, _, _)
CrawlLinks(web, links, i, prefer_hq, st) ==
  IF i > Len(links) \/ st.found \/ st.exc THEN st
  ELSE IF links[i] \in st.visited THEN CrawlLinks(web, links, i + 1, prefer_hq, st)
  ELSE CrawlLinks(web, links, i + 1, prefer_hq,
                  ScanLink(web, links[i], prefer_hq, Visited(st, links[i], links[i])))

\* app.py 187-221: hit is the first line of the page's text that is returned
ScanText(web, domain, url, r, hit, prefer_hq, st) ==
  IF hit.found THEN Return(st, normalize_text(Strip(hit.line)), url)
  ELSE CrawlLinks(web, Take(InternalLinks(r, domain), LinksPerPage), 1, prefer_hq, st)

\* app.py 175-221: txt is the text of the page's first address tag, <<>> without one
ScanTag(web, domain, url, r, txt, prefer_hq, st) ==
  IF txt # <<>> /\ ~(prefer_hq /\ HasSalesKeyword(StrLower(txt)))
  THEN Return(st, normalize_text(txt), url)
  ELSE ScanText(web, domain, url, r,
                FirstLine(SplitLines(GetText(r)), LAMBDA l : AcceptPageLine(l, prefer_hq)),
                prefer_hq, st)

\* app.py 174-176: soup.find("address") and its text
FirstTag(tags) == IF tags = <<>> THEN <<>> ELSE tags[1]

\* app.py 172-223: the page is fetched and scanned
ScanPage(web, domain, url, prefer_hq, st) ==
  IF ~Get(web, url).ok THEN except_Exception(st)
  ELSE ScanTag(web, domain, url, Get(web, url), FirstTag(AddressTexts(Get(web, url))),
               prefer_hq, st)

\* app.py 168-223: one page of the loop over the discovered pages
CrawlPage(web, domain, p, prefer_hq, st) ==
  IF p \in st.visited THEN st
  ELSE ScanPage(web, domain, ensure_scheme(p), prefer_hq, Visited(st, p, ensure_scheme(p)))

\* app.py 167-223: the loop over the discovered pages, from page i on
RECURSIVE CrawlPages(_, _, _, _, _, _)
CrawlPages(web, domain, pages, i, prefer_hq, st) ==
  IF i > Len(pages) \/ st.found \/ st.exc THEN st
  ELSE CrawlPages(web, domain, pages, i + 1, prefer_hq,
                  CrawlPage(web, domain, pages[i], prefer_hq, st))

\* app.py 234-239, 330-335: one link of the search page
AddResult(links, href, domain) ==
  IF StartsWith(href, HTTP) /\ Contains(href, domain) THEN Append(links, href) ELSE links

RECURSIVE ResultLinks(_, _, _, _, _)
\* app.py 238-239, 334-335: the loop ends when `links` holds `most` links
NextResult(hrefs, i, domain, most, links) ==
  IF Len(links) >= most THEN links ELSE ResultLinks(hrefs, i + 1, domain, most, links)

\* app.py 233-239, 329-335: the first `most` result links of the search page
ResultLinks(hrefs, i, domain, most, links) ==
  IF i > Len(hrefs) THEN links
  ELSE NextResult(hrefs, i, domain, most, AddResult(links, hrefs[i], domain))

\* app.py 240-251: the loop over the result links, from link i on
RECURSIVE ScanResults(_, _, _, _, _)
ScanResults(web, links, i, prefer_hq, st) ==
  IF i > Len(links) \/ st.found \/ st.exc THEN st
  ELSE ScanResults(web, links, i + 1, prefer_hq,
                   ScanLink(web, links[i], prefer_hq, Logged(st, links[i])))

\* app.py 225-253: the search-engine fallback
SearchFallback(web, domain, prefer_hq, st) ==
  IF ~Get(web, DDG_URL).ok THEN except_Exception(Logged(st, DDG_URL))
  ELSE ScanResults(web, ResultLinks(Hrefs(Get(web, DDG_URL)), 1, domain, SearchResults, <<>>),
                   1, prefer_hq, Logged(st, DDG_URL))

\* app.py 165: the state before the loop over the pages `disc` of page discovery
SingleStart(disc) ==
  [visited |-> {}, log |-> disc.log, found |-> FALSE, raw |-> <<>>, page |-> <<>>,
   exc |-> disc.exc]

\* A faulty fallback: the search engine is queried after a candidate was
\* returned too.
SingleEnd_always_searching(web, domain, prefer_hq, st) ==
  IF st.exc THEN st ELSE SearchFallback(web, domain, prefer_hq, st)

\* app.py 225-255: what follows the loop over the pages
SingleEnd(web, domain, prefer_hq, st) ==
  IF st.found \/ st.exc THEN st ELSE SearchFallback(web, domain, prefer_hq, st)

\* the value of the call, [raw, page, exc, log]
SingleResult(st) == [raw |-> st.raw, page |-> st.page, exc |-> st.exc, log |-> st.log]

\* app.py 165-255
CrawlSite(web, domain, disc, prefer_hq) ==
  SingleResult(SingleEnd(web, domain, prefer_hq,
                         CrawlPages(web, domain, disc.pages, 1, prefer_hq, SingleStart(disc))))

\* app.py 154-255: [raw, page, exc, log]
extract_address_site(web, website, prefer_hq) ==
  IF website = <<>> THEN [raw |-> <<>>, page |-> <<>>, exc |-> FALSE, log |-> <<>>]
  ELSE CrawlSite(web, DomainOf(website), find_pages_from_home(web, website, SinglePages),
                 prefer_hq)

(***************************************************************************)
(* Multi-result extraction (app.py 258-347).  The state of a run is        *)
(* [visited, log, out, found, exc]: `out` is the list of (raw, page) pairs *)
(* and found says that a `return out` inside the loops was reached.        *)
(***************************************************************************)
\* app.py 267: max_pages of multi-result extraction
AllPages == 30
\* app.py 309: internal links followed per page
AllLinksPerPage == 10
\* app.py 334: search results followed
AllSearchResults == 20

\* app.py 278-280: len(out) >= limit after the append
AtLimit(st, limit) == IF Len(st.out) >= limit THEN [st EXCEPT !.found = TRUE] ELSE st

\* app.py 275-280: norm is the normalized line
AddCandidate(st, norm, page, limit) ==
  IF norm # <<>> /\ \A e \in DOMAIN st.out : st.out[e][1] # norm
  THEN AtLimit([st EXCEPT !.out = Append(@, <<norm, page>>)], limit)
  ELSE st

\* app.py 271-280: one line of the text, cand = line.strip()
CollectLine(st, cand, page, limit) ==
  IF cand # <<>> /\ is_strict_address_candidate(cand)
  THEN AddCandidate(st, normalize_text(cand), page, limit)
  ELSE st

\* app.py 270-281: collect_from_text on the lines from line i on; st.found is its
\* return value
RECURSIVE CollectLines(_, _, _, _, _)
CollectLines(lines, i, page, limit, st) ==
  IF i > Len(lines) \/ st.found THEN st
  ELSE CollectLines(lines, i + 1, page, limit, CollectLine(st, Strip(lines[i]), page, limit))

collect_from_text(text, page, limit, st) == CollectLines(SplitLines(text), 1, page, limit, st)

\* app.py 292-295: the loop over the address tags of a page, from tag i on
RECURSIVE CollectTags(_, _, _, _, _)
CollectTags(tags, i, page, limit, st) ==
  IF i > Len(tags) \/ st.found THEN st
  ELSE CollectTags(tags, i + 1, page, limit,
                   IF tags[i] # <<>> THEN collect_from_text(tags[i], page, limit, st) ELSE st)

\* app.py 313-319, 337-343: a linked page or a search result is fetched and scanned
CollectLink(web, link, limit, st) ==
  IF ~Get(web, link).ok THEN except_Exception(st)
  ELSE collect_from_text(GetText(Get(web, link)), link, limit, st)

\* app.py 309-319: the loop over the first links of a page, from link i on
RECURSIVE CollectLinks(_, _, _, _, _)
CollectLinks(web, links, i, limit, st) ==
  IF i > Len(links) \/ st.found \/ st.exc THEN st
  ELSE IF links[i] \in st.visited THEN CollectLinks(web, links, i + 1, limit, st)
  ELSE CollectLinks(web, links, i + 1, limit,
                    CollectLink(web, links[i], limit, Visited(st, links[i], links[i])))

\* app.py 297-299: the text of the page
CollectText(r, url, limit, st) ==
  IF st.found THEN st ELSE collect_from_text(GetText(r), url, limit, st)

\* app.py 301-319: the links of the page
CollectInner(web, domain, r, limit, st) ==
  IF st.found THEN st
  ELSE CollectLinks(web, Take(InternalLinks(r, domain), AllLinksPerPage), 1, limit, st)

\* app.py 290-319: the fetched page r is scanned
CollectSoup(web, domain, r, url, limit, st) ==
  CollectInner(web, domain, r, limit,
               CollectText(r, url, limit, CollectTags(AddressTexts(r), 1, url, limit, st)))

\* app.py 288-321: the page is fetched and scanned
FetchPage(web, domain, url, limit, st) ==
  IF ~Get(web, url).ok THEN except_Exception(st)
  ELSE CollectSoup(web, domain, Get(web, url), url, limit, st)

\* app.py 285-321: one page of the loop over the discovered pages
CollectPage(web, domain, p, limit, st) ==
  IF p \in st.visited THEN st
  ELSE FetchPage(web, domain, ensure_scheme(p), limit, Visited(st, p, ensure_scheme(p)))

\* app.py 284-321: the loop over the discovered pages, from page i on
RECURSIVE CollectPages(_, _, _, _, _, _)
CollectPages(web, domain, pages, i, limit, st) ==
  IF i > Len(pages) \/ st.found \/ st.exc THEN st
  ELSE CollectPages(web, domain, pages, i + 1, limit,
                    CollectPage(web, domain, pages[i], limit, st))

\* app.py 336-343: the loop over the result links, from link i on
RECURSIVE CollectResults(_, _, _, _, _)
CollectResults(web, links, i, limit, st) ==
  IF i > Len(links) \/ st.found \/ st.exc THEN st
  ELSE CollectResults(web, links, i + 1, limit,
                      CollectLink(web, links[i], limit, Logged(st, links[i])))

\* app.py 323-345: the search-engine fallback
CollectFallback(web, domain, limit, st) ==
  IF ~Get(web, DDG_URL).ok THEN except_Exception(Logged(st, DDG_URL))
  ELSE CollectResults(web, ResultLinks(Hrefs(Get(web, DDG_URL)), 1, domain,
                                       AllSearchResults, <<>>),
                      1, limit, Logged(st, DDG_URL))

\* app.py 262-268: the state before the loop over the pages `disc` of page discovery
AllStart(disc) ==
  [visited |-> {}, log |-> disc.log, out |-> <<>>, found |-> FALSE, exc |-> disc.exc]

\* app.py 323-347: what follows the loop over the pages
AllEnd(web, domain, limit, st) ==
  IF st.found \/ st.exc THEN st ELSE CollectFallback(web, domain, limit, st)

\* the value of the call, [out, exc, log]
AllResult(st) == [out |-> st.out, exc |-> st.exc, log |-> st.log]

\* app.py 268-347
CollectSite(web, domain, disc, limit) ==
  AllResult(AllEnd(web, domain, limit,
                   CollectPages(web, domain, disc.pages, 1, limit, AllStart(disc))))

\* app.py 258-347: [out, exc, log]
extract_all_addresses_site(web, website, limit) ==
  IF website = <<>> THEN [out |-> <<>>, exc |-> FALSE, log |-> <<>>]
  ELSE CollectSite(web, DomainOf(website), find_pages_from_home(web, website, AllPages), limit)

(***************************************************************************)
(* The batch run of the Streamlit script (app.py 934-1026)                 *)
(***************************************************************************)
\* app.py 990: limit of multi-result extraction in a batch run
BatchLimit == 12

\* A faulty registry step: a new fingerprint replaces the registry instead of
\* being added to it.
register_replacing(reg, h) ==
  IF h \in DOMAIN reg
  THEN [dup |-> "YES", id |-> reg[h], seen |-> reg]
  ELSE [dup |-> "NO", id |-> Prefix8(h), seen |-> (h :> Prefix8(h))]

\* A faulty registry step: a fingerprint that is already registered is given a
\* master id of its own.
register_never_duplicate(reg, h) ==
  [dup |-> "NO", id |-> Prefix8(h), seen |-> (h :> Prefix8(h)) @@ reg]

\* app.py 1005-1011: the registry step on the dict `seen` for the fingerprint h,
\* as [dup, id, seen]
register(reg, h) ==
  IF h \in DOMAIN reg
  THEN [dup |-> "YES", id |-> reg[h], seen |-> reg]
  ELSE [dup |-> "NO", id |-> Prefix8(h), seen |-> (h :> Prefix8(h)) @@ reg]

\* app.py 989-995: the candidates of one row, as [cands, exc], from the values
\* `all` and `single` of the two extraction calls
Candidates(multi, all, single) ==
  IF multi /\ all.exc THEN [cands |-> <<>>, exc |-> TRUE]
  ELSE IF multi /\ all.out # <<>> THEN [cands |-> all.out, exc |-> FALSE]
  ELSE [cands |-> <<<<single.raw, single.page>>>>, exc |-> single.exc]

candidates_of(web, site, o) ==
  Candidates(o.extract_multiple, extract_all_addresses_site(web, site, BatchLimit),
             extract_address_site(web, site, o.prefer_hq))

\* app.py 998-1000
Parsed(cand, site) ==
  standardize_address_dict(cand[1]) @@ ("DATA SOURCE LINK" :> site) @@ ("FOUND PAGE" :> cand[2])

\* app.py 1002
Scored(parsed) == parsed @@ ("CONFIDENCE SCORE" :> calculate_confidence(parsed))

\* app.py 1005-1013: reg is the registry step for the record's fingerprint
Registered(st, parsed, reg) ==
  [records |-> Append(st.records, parsed @@ ("DUPLICATE FLAG" :> reg.dup)
                                         @@ ("MASTER RECORD ID" :> reg.id)),
   seen |-> reg.seen, exc |-> FALSE]

\* app.py 1004-1013: hash_address raises or gives the fingerprint
Fingerprinted(st, parsed) ==
  IF hash_raises(parsed) THEN [st EXCEPT !.exc = TRUE]
  ELSE Registered(st, parsed, register(st.seen, hash_address(parsed)))

\* app.py 998-1013: one candidate of a row, on the state st = [records, seen, exc]
\* of the loop; geo is what the geocoding service answers for this candidate
process_candidate(cand, site, geo, st) ==
  IF st.exc THEN st
  ELSE Fingerprinted(st, Scored(enrich_with_nominatim(Parsed(cand, site), geo)))

\* app.py 997-1013: the loop over the candidates of a row, from candidate i on
RECURSIVE process_candidates(_, _, _, _, _)
process_candidates(cands, i, site, geos, st) ==
  IF i > Len(cands) THEN st
  ELSE process_candidates(cands, i + 1, site, geos,
                          process_candidate(cands[i], site, geos[i], st))

\* app.py 934-938: the button is pressed with no file uploaded
ProcessNoFile ==
  /\ pc \in {"idle", "done", "stopped", "aborted"}
  /\ pc' = "stopped"
  /\ sites' = <<>> /\ idx' = 0 /\ records' = <<>> /\ seen' = <<>> /\ raised' = FALSE
  /\ UNCHANGED <<world, opts, fn, arg, ret>>

\* app.py 940-982: the sheet has no website column
ProcessNoColumn ==
  /\ pc \in {"idle", "done", "stopped", "aborted"}
  /\ pc' = "stopped"
  /\ sites' = <<>> /\ idx' = 0 /\ records' = <<>> /\ seen' = <<>> /\ raised' = FALSE
  /\ \E hq \in BOOLEAN, multi \in BOOLEAN :
       opts' = [prefer_hq |-> hq, extract_multiple |-> multi]
  /\ UNCHANGED <<world, fn, arg, ret>>

\* app.py 934-986: the button is pressed with a sheet whose website column is
\* `column`; the script run starts with empty `records` and `seen`
ProcessStart(column, hq, multi) ==
  /\ pc \in {"idle", "done", "stopped", "aborted"}
  /\ pc' = "loop"
  /\ opts' = [prefer_hq |-> hq, extract_multiple |-> multi]
  /\ sites' = column
  /\ idx' = 0 /\ records' = <<>> /\ seen' = <<>> /\ raised' = FALSE
  /\ UNCHANGED <<world, fn, arg, ret>>

\* app.py 988-1015: one iteration of the loop over the rows; c is what app.py
\* 989-995 gets for the row, candidates_of(world.web, sites[idx + 1], opts)
process_row(c) ==
  /\ pc = "loop" /\ idx < Len(sites)
  /\ \E geos \in [1..Len(c.cands) -> world.geos] :
     \E st \in {process_candidates(c.cands, 1, sites[idx + 1], geos,
                                    [records |-> records, seen |-> seen, exc |-> c.exc])} :
           /\ records' = st.records
           /\ seen' = st.seen
           /\ raised' = st.exc
           /\ pc' = IF st.exc THEN "aborted" ELSE "loop"
           /\ idx' = IF st.exc THEN idx ELSE idx + 1
  /\ UNCHANGED <<world, opts, sites, fn, arg, ret>>

\* app.py 1017-1026: the table is shown and the export is built
Export ==
  /\ pc = "loop" /\ idx = Len(sites)
  /\ pc' = "done"
  /\ UNCHANGED <<world, opts, sites, idx, records, seen, raised, fn, arg, ret>>

(***************************************************************************)
(* Inputs of the checked runs                                              *)
(***************************************************************************)
\* rows of the uploaded sheet
MaxRows == 3

ExampleCom == <<"e","x","a","m","p","l","e",".","c","o","m">>
BCo == <<"b",".","c","o">>
SitePool == {ExampleCom, BCo}

HomeOf(site) == HTTPS_PREFIX \o site
UrlOf(site, path) == HomeOf(site) \o path
CONTACT == <<"/","c","o","n","t","a","c","t">>

InfiniteLoop == <<"1"," ","I","n","f","i","n","i","t","e"," ","L","o","o","p",","," ","C","u","p","e","r","t","i","n","o",","," ","C","A"," ","9","5","0","1","4">>
OakDrive == <<"1","2"," ","O","a","k"," ","D","r",","," ","E","l","y">>
ElmAvenue == <<"9"," ","E","l","m"," ","A","v","e",","," ","E","l","y">>
StoreLine == <<"O","u","r"," ","s","t","o","r","e",":"," ","5"," ","L","o","w"," ","S","t","r","e","e","t">>
Dashes == <<"-","-","-">>

\* the columns a sheet may hold: up to MaxRows rows drawn from SitePool
RECURSIVE SeqsUpTo(_, _)
SeqsUpTo(S, n) ==
  IF n = 0 THEN {<<>>}
  ELSE LET shorter == SeqsUpTo(S, n - 1)
       IN  shorter \cup {Append(q, x) : q \in shorter, x \in S}
Columns == SeqsUpTo(SitePool, MaxRows)

\* answers of the Nominatim service
GeoError == [kind |-> "error", address |-> <<>>]
GeoEmpty == [kind |-> "empty", address |-> <<>>]
GeoMalformed == [kind |-> "malformed", address |-> <<>>]
Hit(city, state, postcode, country) ==
  [kind |-> "hit",
   address |-> [city |-> city, state |-> state, postcode |-> postcode, country |-> country]]

Cupertino == <<"C","u","p","e","r","t","i","n","o">>
California == <<"C","a","l","i","f","o","r","n","i","a">>
Zip95014 == <<"9","5","0","1","4">>
UnitedStates == <<"U","n","i","t","e","d"," ","S","t","a","t","e","s">>
Ely == <<"E","l","y">>

GeoFull == Hit(Cupertino, California, Zip95014, UnitedStates)
\* a postcode that is a JSON number
GeoIntPostcode == Hit(Ely, NoneVal, IntVal(Zip95014), NoneVal)
\* a state that is a JSON number, after a city that is a string
GeoIntState == Hit(Ely, IntVal(<<"5">>), Zip95014, UnitedStates)
\* names that hold the character "|"
GeoBarCity == Hit(<<"b","|","c">>, NoneVal, NoneVal, NoneVal)
GeoBarState == Hit(<<"b">>, <<"c","|">>, NoneVal, NoneVal)

\* nothing answers
WebDown == <<>>
\* example.com shows its address on the homepage only, and nothing else answers
WebHomeOnly == (HomeOf(ExampleCom) :> Page(<<Address(InfiniteLoop)>>))
\* example.com shows its address on the homepage, which its contact page links to;
\* b.co shows the same address in a paragraph of its contact page
WebLinked ==
  (HomeOf(ExampleCom) :> Page(<<Address(InfiniteLoop)>>))
  @@ (UrlOf(ExampleCom, <<"/">>) :> Page(<<Address(InfiniteLoop)>>))
  @@ (UrlOf(ExampleCom, CONTACT) :> Page(<<Anchor(<<"/">>)>>))
  @@ (UrlOf(BCo, CONTACT) :> Page(<<Para(InfiniteLoop)>>))
\* example.com has an address element that holds only dashes; b.co lists two
\* addresses on two lines of its contact page
WebOdd ==
  (UrlOf(ExampleCom, CONTACT) :> Page(<<Address(Dashes)>>))
  @@ (UrlOf(BCo, CONTACT) :> Page(<<Para(OakDrive \o <<"\n">> \o ElmAvenue)>>))

Worlds == {
  [web |-> WebDown,     geos |-> {GeoError}],
  [web |-> WebHomeOnly, geos |-> {GeoError, GeoFull}],
  [web |-> WebLinked,   geos |-> {GeoError, GeoFull}],
  [web |-> WebLinked,   geos |-> {GeoEmpty, GeoBarCity, GeoBarState}],
  [web |-> WebOdd,      geos |-> {GeoMalformed, GeoIntPostcode, GeoIntState}] }

(***************************************************************************)
(* The batch run                                                           *)
(***************************************************************************)
\* candidates_of tabulated over the webs, sites and options of the checked runs
CandidatesTable ==
  [w \in {x.web : x \in Worlds} |-> [s \in SitePool |-> [hq \in BOOLEAN |-> [multi \in BOOLEAN |->
     candidates_of(w, s, [prefer_hq |-> hq, extract_multiple |-> multi])]]]]

\* app.py 988-1015: the next row of the sheet is processed
ProcessRow ==
  /\ pc = "loop" /\ idx < Len(sites)
  /\ process_row(CandidatesTable[world.web][sites[idx + 1]][opts.prefer_hq][opts.extract_multiple])

Init ==
  /\ world \in Worlds
  /\ pc = "idle"
  /\ opts = [prefer_hq |-> TRUE, extract_multiple |-> FALSE]
  /\ sites = <<>> /\ idx = 0 /\ records = <<>> /\ seen = <<>> /\ raised = FALSE
  /\ fn = "none" /\ arg = <<>> /\ ret = <<>>

Next ==
  \/ ProcessNoFile
  \/ ProcessNoColumn
  \/ \E column \in Columns, hq \in BOOLEAN, multi \in BOOLEAN : ProcessStart(column, hq, multi)
  \/ ProcessRow
  \/ Export

Spec == Init /\ [][Next]_vars

(***************************************************************************)
(* Properties of the batch run                                             *)
(***************************************************************************)
\* (street line 1, city, state, postal code, country) of a record
TupleOf(rec) == [i \in 1..Len(HashKeys) |-> rec[HashKeys[i]]]
\* the first record of the run with the tuple of record j
FirstWith(j) == CHOOSE k \in 1..j : /\ TupleOf(records[k]) = TupleOf(records[j])
                                    /\ \A m \in 1..(k - 1) : TupleOf(records[m]) # TupleOf(records[j])

\* C1: in one batch run, of any two records with the same (street line 1, city,
\* state, postal code, country) the later one has DUPLICATE FLAG "YES" and the
\* MASTER RECORD ID of the first record with that tuple, which has DUPLICATE FLAG
\* "NO"; two companies that resolve to one address give exactly two such rows.
C1_SameTupleIsDuplicate ==
  /\ \A i, j \in DOMAIN records :
       (i < j /\ TupleOf(records[i]) = TupleOf(records[j])) =>
         /\ records[j]["DUPLICATE FLAG"] = "YES"
         /\ records[j]["MASTER RECORD ID"] = records[FirstWith(j)]["MASTER RECORD ID"]
         /\ records[FirstWith(j)]["DUPLICATE FLAG"] = "NO"
  /\ (pc = "done" /\ Len(sites) = 2 /\ ~opts.extract_multiple) => Len(records) = 2

\* C2: during a run a registered fingerprint keeps its master id, which is the
\* one given when it was registered, and no entry is removed; every run starts
\* with an empty registry.
C2_RegistryKeepsMasterIds ==
  [][ /\ pc = "loop" => \A h \in DOMAIN seen : h \in DOMAIN seen' /\ seen'[h] = seen[h]
      /\ \A h \in DOMAIN seen' : seen'[h] = Prefix8(h)
      /\ (pc # "loop" /\ pc' = "loop") => seen' = <<>> ]_vars

\* a run that registered two fingerprints and then met one of them again
C2_Witness ==
  /\ pc = "done" /\ Len(records) = 3 /\ Cardinality(DOMAIN seen) = 2
  /\ records[3]["DUPLICATE FLAG"] = "YES"

OneInfiniteLoop == <<"1"," ","I","N","F","I","N","I","T","E"," ","L","O","O","P">>
CUPERTINO == <<"C","U","P","E","R","T","I","N","O">>

\* C3: the sheet holds the one website example.com, whose homepage shows
\* "1 Infinite Loop, Cupertino, CA 95014" in an address element, and the options
\* are the defaults: the run ends with one record that has STREET ADDRESS 1
\* "1 INFINITE LOOP", CITY "CUPERTINO", STATE "CA", PIN CODE "95014", CONFIDENCE
\* SCORE 100 and DUPLICATE FLAG "NO".
C3_AcmeEndToEnd ==
  (/\ pc = "done" /\ sites = <<ExampleCom>>
   /\ world.web \in {WebHomeOnly, WebLinked}
   /\ opts = [prefer_hq |-> TRUE, extract_multiple |-> FALSE]
   /\ GeoFull \in world.geos) =>
     /\ Len(records) = 1
     /\ records[1]["STREET ADDRESS 1"] = OneInfiniteLoop
     /\ records[1]["CITY"] = CUPERTINO
     /\ records[1]["STATE"] = <<"C","A">>
     /\ records[1]["PIN CODE"] = Zip95014
     /\ records[1]["CONFIDENCE SCORE"] = 100
     /\ records[1]["DUPLICATE FLAG"] = "NO"

\* C6: a run over a sheet with a website column is never aborted; when it reaches
\* the export every row of the sheet has at least one record (exactly one in
\* single-result mode) and the records follow the order of the rows.
C6_NoCompanyAbortsTheBatch ==
  /\ pc # "aborted"
  /\ pc = "done" =>
       /\ \A i \in DOMAIN sites : \E r \in DOMAIN records : records[r]["DATA SOURCE LINK"] = sites[i]
       /\ ~opts.extract_multiple =>
            /\ Len(records) = Len(sites)
            /\ \A i \in DOMAIN sites : records[i]["DATA SOURCE LINK"] = sites[i]
       /\ \A r1, r2 \in DOMAIN records : r1 <= r2 =>
            \E i1, i2 \in DOMAIN sites : /\ i1 <= i2
                                         /\ records[r1]["DATA SOURCE LINK"] = sites[i1]
                                         /\ records[r2]["DATA SOURCE LINK"] = sites[i2]

(***************************************************************************)
(* Calls of the two extraction functions.  The web of a call answers five  *)
(* URLs of example.com: the homepage, the contact page, a page the contact *)
(* page links to, the search page and a page the search page lists.        *)
(***************************************************************************)
\* largest `limit` of a multi-result call
MaxLimit == 2

LINKED == <<"/","x">>
ResultUrl == UrlOf(ExampleCom, <<"/","r">>)
TwoLines == OakDrive \o <<"\n">> \o ElmAvenue

HomeAnswers == {Fail, Page(<<Address(InfiniteLoop)>>)}
ContactAnswers == {Fail, Page(<<Anchor(LINKED)>>), Page(<<Address(Dashes), Anchor(LINKED)>>),
                   Page(<<Para(StoreLine), Anchor(LINKED)>>), Page(<<Address(InfiniteLoop)>>)}
LinkedAnswers == {Fail, Page(<<Para(TwoLines)>>)}
SearchAnswers == {Fail, Page(<<Anchor(ResultUrl)>>)}
ResultAnswers == {Fail, Page(<<Para(InfiniteLoop)>>)}

WebOf(home, contact, linked, search, result) ==
  (HomeOf(ExampleCom) :> home) @@ (UrlOf(ExampleCom, CONTACT) :> contact)
  @@ (UrlOf(ExampleCom, LINKED) :> linked) @@ (DDG_URL :> search) @@ (ResultUrl :> result)

ExtractWebs ==
  {WebOf(h, c, l, s, r) : h \in HomeAnswers, c \in ContactAnswers, l \in LinkedAnswers,
                          s \in SearchAnswers, r \in ResultAnswers}

ExtractInit ==
  /\ world \in [web : ExtractWebs, geos : {{}}]
  /\ pc = "call"
  /\ opts = <<>> /\ sites = <<>> /\ idx = 0 /\ records = <<>> /\ seen = <<>> /\ raised = FALSE
  /\ fn = "none"
  /\ arg \in [website : {ExampleCom, HomeOf(ExampleCom)}, prefer_hq : BOOLEAN, limit : 1..MaxLimit]
  /\ ret = <<>>

\* the call returned the value `value`, or an exception left it
Returned(name, value) ==
  /\ fn' = name
  /\ ret' = value
  /\ raised' = value.exc
  /\ pc' = IF value.exc THEN "raised" ELSE "returned"
  /\ UNCHANGED <<world, opts, sites, idx, records, seen, arg>>

\* extract_address_site(website, prefer_hq)
CallExtractAddressSite ==
  /\ pc = "call"
  /\ Returned("extract_address_site",
              extract_address_site(world.web, arg.website, arg.prefer_hq))

\* extract_all_addresses_site(website, limit)
CallExtractAllAddressesSite ==
  /\ pc = "call"
  /\ Returned("extract_all_addresses_site",
              extract_all_addresses_site(world.web, arg.website, arg.limit))

ExtractNext == CallExtractAddressSite \/ CallExtractAllAddressesSite

SpecExtract == ExtractInit /\ [][ExtractNext]_vars

\* every request of the call's web fails
AllFetchesFail == \A url \in DOMAIN world.web : ~world.web[url].ok
\* the call found nothing
NothingFound ==
  IF fn = "extract_address_site" THEN ret.raw = <<>> /\ ret.page = <<>> ELSE ret.out = <<>>
\* the pages the call gets from page discovery
PagesOfCall ==
  find_pages_from_home(world.web, arg.website,
                       IF fn = "extract_address_site" THEN SinglePages ELSE AllPages).pages

\* C4: a call of extract_address_site or extract_all_addresses_site on a non-empty
\* website returns normally whichever fetches fail; a page whose fetch fails gives
\* no candidate and the crawl goes on, so a call that finds nothing has requested
\* every discovered page and the search page; when every fetch fails the result is
\* ("", "") or the empty list.
C4_ExtractorNeverRaises ==
  fn \in {"extract_address_site", "extract_all_addresses_site"} =>
    /\ pc = "returned" /\ ~ret.exc
    /\ NothingFound =>
         /\ \A i \in DOMAIN PagesOfCall : \E j \in DOMAIN ret.log : ret.log[j] = PagesOfCall[i]
         /\ \E j \in DOMAIN ret.log : ret.log[j] = DDG_URL
    /\ AllFetchesFail => NothingFound

\* a call of the single-result extraction in which every fetch failed
C4_Witness ==
  /\ fn = "extract_address_site" /\ AllFetchesFail /\ pc = "returned"
  /\ Len(ret.log) = 2 + SinglePages

\* C5: extract_address_site returns a raw text and a source page that are both
\* non-empty or both empty.
C5_PairOrEmptyPair ==
  fn = "extract_address_site" =>
    \/ ret.raw # <<>> /\ ret.page # <<>>
    \/ ret.raw = <<>> /\ ret.page = <<>>

(***************************************************************************)
(* Calls of the two enrichment functions                                   *)
(***************************************************************************)
AddrOf(street1, street2, city, state, pin, country) ==
  [k \in AddrKeys |->
    CASE k = "STREET ADDRESS 1" -> street1
      [] k = "STREET ADDRESS 2" -> street2
      [] k = "CITY"     -> city
      [] k = "STATE"    -> state
      [] k = "PIN CODE" -> pin
      [] k = "COUNTRY"  -> country]

MainSt == <<"1"," ","M","A","I","N"," ","S","T">>
Zip62704 == <<"6","2","7","0","4">>

\* the records that are enriched: every field is empty or populated
EnrichRecords ==
  {AddrOf(s1, <<>>, c, st, p, co) :
     s1 \in {<<>>, MainSt}, c \in {<<>>, <<"Y","O","R","K">>}, st \in {<<>>, <<"N","Y">>},
     p \in {<<>>, Zip62704}, co \in {<<>>, <<"U","K">>}}

NominatimAnswers ==
  {GeoError, GeoEmpty, GeoMalformed, GeoFull, GeoIntPostcode, GeoIntState, GeoBarCity}

Component(types, long_name) == [types |-> types, long_name |-> long_name]
GoogleComponentsOf(area) ==
  << Component({"locality", "political"}, Cupertino),
     Component({"administrative_area_level_1", "political"}, area),
     Component({"country", "political"}, UnitedStates),
     Component({"postal_code"}, Zip95014) >>
GoogleError == [kind |-> "error", status |-> "", components |-> <<>>]
GoogleZeroResults == [kind |-> "json", status |-> "ZERO_RESULTS", components |-> <<>>]
GoogleFull == [kind |-> "json", status |-> "OK", components |-> GoogleComponentsOf(California)]
\* the second component has no long_name
GoogleNoLongName == [kind |-> "json", status |-> "OK", components |-> GoogleComponentsOf(NoneVal)]
GoogleAnswers == {GoogleError, GoogleZeroResults, GoogleFull, GoogleNoLongName}

EnrichInit ==
  /\ world = <<>> /\ pc = "call"
  /\ opts = <<>> /\ sites = <<>> /\ idx = 0 /\ records = <<>> /\ seen = <<>> /\ raised = FALSE
  /\ fn = "none"
  /\ arg \in [record : EnrichRecords, geo : {<<>>}]
  /\ ret = <<>>

\* enrich_with_nominatim(record), the service answering geo
CallEnrichWithNominatim ==
  /\ pc = "call"
  /\ \E geo \in NominatimAnswers :
       /\ arg' = [arg EXCEPT !.geo = geo]
       /\ ret' = enrich_with_nominatim(arg.record, geo)
  /\ fn' = "enrich_with_nominatim"
  /\ pc' = "returned"
  /\ UNCHANGED <<world, opts, sites, idx, records, seen, raised>>

\* enrich_with_google_maps(address), the service answering geo
CallEnrichWithGoogleMaps ==
  /\ pc = "call"
  /\ \E geo \in GoogleAnswers :
       /\ arg' = [arg EXCEPT !.geo = geo]
       /\ ret' = enrich_with_google_maps(arg.record, geo)
  /\ fn' = "enrich_with_google_maps"
  /\ pc' = "returned"
  /\ UNCHANGED <<world, opts, sites, idx, records, seen, raised>>

EnrichNext == CallEnrichWithNominatim \/ CallEnrichWithGoogleMaps

SpecEnrich == EnrichInit /\ [][EnrichNext]_vars

EnrichCalled == fn \in {"enrich_with_nominatim", "enrich_with_google_maps"}

\* C7: a field among city, state, postal code and country that is populated
\* before the call has the same value after it, whatever the service answers;
\* the two street lines are never changed.
C7_PopulatedFieldsAreKept ==
  EnrichCalled =>
    /\ \A k \in {"CITY", "STATE", "PIN CODE", "COUNTRY"} :
         arg.record[k] # <<>> => ret[k] = arg.record[k]
    /\ ret["STREET ADDRESS 1"] = arg.record["STREET ADDRESS 1"]
    /\ ret["STREET ADDRESS 2"] = arg.record["STREET ADDRESS 2"]

\* the record fields the Nominatim fields are upper-cased into
UpperCased == [city |-> "CITY", state |-> "STATE", country |-> "COUNTRY"]

\* the geocoding call of enrich_with_nominatim fails: the request or the decoding
\* raises, the answer has not the expected shape, or a field that is read is not
\* a string
NominatimFails ==
  \/ arg.geo.kind \in {"error", "malformed"}
  \/ /\ arg.geo.kind = "hit"
     /\ \E k \in DOMAIN UpperCased :
          /\ ~Truthy(arg.record[UpperCased[k]])
          /\ Truthy(arg.geo.address[k]) /\ ~IsStr(arg.geo.address[k])

\* the geocoding call of enrich_with_google_maps fails: the request or the
\* decoding raises, the status is not OK, or a component that is read has no
\* long_name
GoogleFails ==
  \/ arg.geo.kind = "error"
  \/ arg.geo.status # "OK"
  \/ \E i \in DOMAIN arg.geo.components :
       /\ arg.geo.components[i].long_name = NoneVal
       /\ arg.geo.components[i].types
            \cap {"locality", "administrative_area_level_1", "country", "postal_code"} # {}

\* C8: when the geocoding call fails, also after a part of the answer was read,
\* the record that is returned equals the record that was passed.
C8_FailureChangesNothing ==
  /\ (fn = "enrich_with_nominatim" /\ NominatimFails) => ret = arg.record
  /\ (fn = "enrich_with_google_maps" /\ GoogleFails) => ret = arg.record

(***************************************************************************)
(* Calls of calculate_confidence                                           *)
(***************************************************************************)
ScoreValues == {<<>>, <<"A">>, <<" ">>}
ScoreRecords ==
  {AddrOf(s1, <<>>, c, st, p, co) : s1 \in ScoreValues, c \in ScoreValues, st \in ScoreValues,
                                    p \in ScoreValues, co \in ScoreValues}

ScoreInit ==
  /\ world = <<>> /\ pc = "call"
  /\ opts = <<>> /\ sites = <<>> /\ idx = 0 /\ records = <<>> /\ seen = <<>> /\ raised = FALSE
  /\ fn = "none"
  /\ arg \in [record : ScoreRecords]
  /\ ret = <<>>

\* calculate_confidence(addr)
CallCalculateConfidence ==
  /\ pc = "call"
  /\ fn' = "calculate_confidence"
  /\ ret' = calculate_confidence(arg.record)
  /\ pc' = "returned"
  /\ UNCHANGED <<world, opts, sites, idx, records, seen, raised, arg>>

ScoreNext == CallCalculateConfidence

SpecScore == ScoreInit /\ [][ScoreNext]_vars

\* the populated fields of a record among city, state, postal code and country
Populated(rec) == {k \in {"CITY", "STATE", "PIN CODE", "COUNTRY"} : rec[k] # <<>>}

\* C9: the score is 40 when street line 1 is populated, plus 15 for every
\* populated field among city, state, postal code and country; it lies in 0..100,
\* is 40 for a record with street line 1 only, 100 for a fully populated record
\* and 0 for an empty one.
C9_ScoreIsWeightedSum ==
  fn = "calculate_confidence" =>
    /\ ret = (IF arg.record["STREET ADDRESS 1"] # <<>> THEN 40 ELSE 0)
               + 15 * Cardinality(Populated(arg.record))
    /\ ret \in 0..100
    /\ (arg.record["STREET ADDRESS 1"] # <<>> /\ Populated(arg.record) = {}) => ret = 40
    /\ (arg.record["STREET ADDRESS 1"] # <<>> /\ Cardinality(Populated(arg.record)) = 4)
         => ret = 100
    /\ (arg.record["STREET ADDRESS 1"] = <<>> /\ Populated(arg.record) = {}) => ret = 0

\* the score of a record with street line 1, city and postal code
C9_Witness ==
  /\ fn = "calculate_confidence" /\ ret = 70
  /\ arg.record["STREET ADDRESS 1"] # <<>> /\ Populated(arg.record) = {"CITY", "PIN CODE"}

(***************************************************************************)
(* Calls of the two address parsers.  The text that is parsed is made of   *)
(* parts joined by ", ".                                                   *)
(***************************************************************************)
\* most parts of a parsed text, the example apart
MaxParts == 3

MainStreet123 == <<"1","2","3"," ","M","a","i","n"," ","S","t","r","e","e","t">>
Suite4 == <<"S","u","i","t","e"," ","4">>
Springfield == <<"S","p","r","i","n","g","f","i","e","l","d">>
IL62704 == <<"I","L"," ","6","2","7","0","4">>
ParsePool == {MainStreet123, Suite4, Springfield, IL62704, <<"U","S","A">>}
\* "123 Main Street, Suite 4, Springfield, IL 62704, USA"
ExampleParts == <<MainStreet123, Suite4, Springfield, IL62704, <<"U","S","A">> >>
ParseInputs == SeqsUpTo(ParsePool, MaxParts) \cup {ExampleParts}

ParseInit ==
  /\ world = <<>> /\ pc = "call"
  /\ opts = <<>> /\ sites = <<>> /\ idx = 0 /\ records = <<>> /\ seen = <<>> /\ raised = FALSE
  /\ fn = "none"
  /\ arg \in [parts : ParseInputs]
  /\ ret = <<>>

\* standardize_address_dict(raw) of app.py
CallStandardizeAddressDict ==
  /\ pc = "call"
  /\ fn' = "standardize_address_dict"
  /\ ret' = standardize_address_dict(Join(<<",", " ">>, arg.parts))
  /\ pc' = "returned"
  /\ UNCHANGED <<world, opts, sites, idx, records, seen, raised, arg>>

\* standardize_address(raw_address) of api.py
CallStandardizeAddress ==
  /\ pc = "call"
  /\ fn' = "standardize_address"
  /\ ret' = standardize_address(Join(<<",", " ">>, arg.parts))
  /\ pc' = "returned"
  /\ UNCHANGED <<world, opts, sites, idx, records, seen, raised, arg>>

ParseNext == CallStandardizeAddressDict \/ CallStandardizeAddress

SpecParse == ParseInit /\ [][ParseNext]_vars

\* C10: "123 Main Street, Suite 4, Springfield, IL 62704, USA" is parsed into
\* street line 1 "123 MAIN STREET", street line 2 "SUITE 4", city "SPRINGFIELD",
\* postal code "62704", the state "IL" that is left of the part that held the
\* postal code, and country "UNITED STATES OF AMERICA"; of any text the first part
\* is street line 1, the second street line 2 and the third the city.
C10_ParserExample ==
  fn \in {"standardize_address_dict", "standardize_address"} =>
    /\ arg.parts = ExampleParts =>
         /\ ret["STREET ADDRESS 1"] = StrUpper(MainStreet123)
         /\ ret["STREET ADDRESS 2"] = StrUpper(Suite4)
         /\ ret["CITY"] = StrUpper(Springfield)
         /\ ret["PIN CODE"] = Zip62704
         /\ ret["STATE"] = <<"I","L">>
         /\ ret["COUNTRY"] = USA
    /\ Len(arg.parts) >= 1 => ret["STREET ADDRESS 1"] = StrUpper(arg.parts[1])
    /\ Len(arg.parts) >= 2 => ret["STREET ADDRESS 2"] = StrUpper(arg.parts[2])
    /\ Len(arg.parts) >= 3 => ret["CITY"] = StrUpper(arg.parts[3])

(***************************************************************************)
(* Calls of the address classifier.  A classified text is a core text,     *)
(* padded to a length and set between leading and trailing white space.    *)
(***************************************************************************)
MainSTREET123 == <<"1","2","3"," ","M","a","i","n"," ","S","T","R","E","E","T">>
EmailOnly == <<"i","n","f","o","@","e","x","a","m","p","l","e",".","c","o","m">>
NewsLine == <<"n","e","w","s"," ","1","2"," ","O","a","k"," ","S","t","r","e","e","t">>
DataLine == <<"d","a","t","a"," ","1","2","3","4","5">>
UkPostcode == <<"S","W","1","A"," ","1","A","A">>
HelloWorld == <<"h","e","l","l","o"," ","w","o","r","l","d">>
ZipPlus4 == <<"6","2","7","0","4","-","1","2","3","4">>
LongNumberWay == <<"1","2","3","4","5","6","7"," ","E","l","m"," ","W","a","y">>
ElmAve45 == <<"4","5"," ","E","l","m"," ","A","v","e">>
ClassifyCores == {MainSTREET123, EmailOnly, NewsLine, DataLine, UkPostcode, HelloWorld,
                  ZipPlus4, LongNumberWay, ElmAve45}
\* the lengths the texts are padded to; a core longer than the length is not padded
ClassifyLengths == {0, MinCandidateLen - 1, MinCandidateLen, MaxCandidateLen,
                    MaxCandidateLen + 1, MaxCandidateLen + 2}
ClassifyMargins == {<<>>, <<" ">>}

\* a space and n - 1 letters
Padding(n) == IF n <= 0 THEN <<>> ELSE <<" ">> \o [i \in 1..(n - 1) |-> "x"]
\* the core padded to `total` characters between the margins
PaddedText(lead, core, total, trail) ==
  lead \o core \o Padding(total - Len(lead) - Len(core) - Len(trail)) \o trail

ClassifyTexts ==
  {PaddedText(lead, core, total, trail) :
     lead \in ClassifyMargins, core \in ClassifyCores, total \in ClassifyLengths,
     trail \in ClassifyMargins}

ClassifyInit ==
  /\ world = <<>> /\ pc = "call"
  /\ opts = <<>> /\ sites = <<>> /\ idx = 0 /\ records = <<>> /\ seen = <<>> /\ raised = FALSE
  /\ fn = "none"
  /\ arg \in [text : ClassifyTexts]
  /\ ret = <<>>

\* is_strict_address_candidate(text)
CallIsStrictAddressCandidate ==
  /\ pc = "call"
  /\ fn' = "is_strict_address_candidate"
  /\ ret' = is_strict_address_candidate(arg.text)
  /\ pc' = "returned"
  /\ UNCHANGED <<world, opts, sites, idx, records, seen, raised, arg>>

ClassifyNext == CallIsStrictAddressCandidate

SpecClassify == ClassifyInit /\ [][ClassifyNext]_vars

\* the texts the classifier is said to accept
SaidCandidate(text) ==
  /\ Len(text) >= MinCandidateLen /\ Len(text) <= MaxCandidateLen
  /\ ~Contains(text, <<"@">>)
  /\ ~StartsWith(StrLower(text), <<"n","e","w","s">>)
  /\ ~StartsWith(StrLower(text), <<"d","a","t","a">>)
  /\ (HasNumber(text) /\ HasStreet(text)) \/ HasZip(text) \/ HasUkPostcode(text)

\* C11: the classifier accepts a text exactly when the text has 10 to 300
\* characters, holds no "@", does not start with a marketing prefix, and holds a
\* number and a street keyword or a postal code; a three-digit number followed by
\* STREET is accepted, a text that is only an email address is rejected, and every
\* text of 301 characters is rejected, white space at its ends included.
C11_ClassifierContract ==
  fn = "is_strict_address_candidate" =>
    /\ ret = SaidCandidate(arg.text)
    /\ arg.text = MainSTREET123 => ret
    /\ arg.text = EmailOnly => ~ret
    /\ Len(arg.text) = MaxCandidateLen + 1 => ~ret

(***************************************************************************)
(* Calls of normalize_text on every text of up to MaxText characters of a  *)
(* small alphabet: a letter, white space, punctuation, the underscore and  *)
(* a letter that unidecode spells with two letters.                        *)
(***************************************************************************)
\* most characters of a normalized text
MaxText == 5
NormalizeAlphabet == {"a", " ", "\n", "-", "_", "U+00DF"}
NormalizeTexts == SeqsUpTo(NormalizeAlphabet, MaxText)

NormalizeInit ==
  /\ world = <<>> /\ pc = "call"
  /\ opts = <<>> /\ sites = <<>> /\ idx = 0 /\ records = <<>> /\ seen = <<>> /\ raised = FALSE
  /\ fn = "none"
  /\ arg \in [text : NormalizeTexts]
  /\ ret = <<>>

\* normalize_text(text)
CallNormalizeText ==
  /\ pc = "call"
  /\ fn' = "normalize_text"
  /\ ret' = normalize_text(arg.text)
  /\ pc' = "returned"
  /\ UNCHANGED <<world, opts, sites, idx, records, seen, raised, arg>>

NormalizeNext == CallNormalizeText

SpecNormalize == NormalizeInit /\ [][NormalizeNext]_vars

\* C12: normalizing a normalized text gives the same text, and the empty text
\* is normalized to the empty text.
C12_NormalizeIsIdempotent ==
  fn = "normalize_text" =>
    /\ normalize_text(ret) = ret
    /\ arg.text = <<>> => ret = <<>>

\* "a - ß" is normalized to "A SS": case, punctuation, white space and a
\* transliterated letter all changed
C12_Witness ==
  /\ fn = "normalize_text"
  /\ arg.text = <<"a", " ", "-", " ", "U+00DF">>
  /\ ret = <<"A", " ", "S", "S">>

(***************************************************************************)
(* Fingerprints and parsed records of the batch run                        *)
(***************************************************************************)
\* C13: of two records of a run that differ in street line 1, city, state, postal
\* code or country, the fingerprints differ, and the later record is not flagged
\* as a duplicate of the earlier one, whatever characters the fields hold.
C13_DifferentTupleDifferentFingerprint ==
  \A i, j \in DOMAIN records :
    (i < j /\ TupleOf(records[i]) # TupleOf(records[j])) =>
      /\ hash_address(records[i]) # hash_address(records[j])
      /\ ~(/\ records[j]["DUPLICATE FLAG"] = "YES"
           /\ records[j]["MASTER RECORD ID"] = records[i]["MASTER RECORD ID"])

\* the candidates of the row that is processed next, as (raw text, page) pairs
RowCandidates ==
  CandidatesTable[world.web][sites[idx + 1]][opts.prefer_hq][opts.extract_multiple].cands

\* C14: when a row is processed, every candidate with a non-empty raw text is
\* parsed into an address with a non-empty street line 1, and the record that is
\* stored for it after enrichment has a non-empty street line 1.
C14_StreetLineOfExtractedText ==
  [][ (pc = "loop" /\ idx < Len(sites)) =>
        \A k \in 1..(Len(records') - Len(records)) :
          RowCandidates[k][1] # <<>> =>
            /\ standardize_address_dict(RowCandidates[k][1])["STREET ADDRESS 1"] # <<>>
            /\ records'[Len(records) + k]["STREET ADDRESS 1"] # <<>> ]_vars

\* a run that stored a record with a street line 1 and a city that enrichment
\* filled in, and a record of a row whose extraction found nothing
C14_Witness ==
  /\ pc = "done" /\ Len(records) >= 2
  /\ \E r \in DOMAIN records : /\ records[r]["STREET ADDRESS 1"] # <<>>
                               /\ records[r]["CITY"] = CUPERTINO
  /\ \E r \in DOMAIN records : records[r]["STREET ADDRESS 1"] = <<>>

(***************************************************************************)
(* Calls of page discovery.  The web of a call answers the homepage only:  *)
(* the fetch fails, or the page holds up to MaxLinks links.                *)
(***************************************************************************)
\* most links of a homepage
MaxLinks == 2
\* app.py 113: max_pages when the caller gives none
DefaultPages == 10

HqIo == <<"h","q",".","i","o">>
OtherOrgAbout == <<"h","t","t","p","s",":","/","/","o","t","h","e","r",".","o","r","g","/","a","b","o","u","t">>
SameSiteY == UrlOf(ExampleCom, <<"/","y">>)
Mailto == <<"m","a","i","l","t","o",":","a","@","b",".","c","o">>
\* a relative link, the same link between white space, a relative link to a
\* conventional path, absolute links to the site and to another site, and a link
\* that is no page
DiscoverHrefs == {LINKED, <<" ">> \o LINKED \o <<" ">>, CONTACT, SameSiteY, OtherOrgAbout, Mailto}
DiscoverSites == {ExampleCom, HomeOf(ExampleCom) \o <<"/">>, HqIo}
DiscoverLimits == {0, 1, 2, 3, DefaultPages, SinglePages, AllPages}

AnchorsOf(hrefs) == Page([i \in 1..Len(hrefs) |-> Anchor(hrefs[i])])
DiscoverAnswers == {Fail} \cup {AnchorsOf(hs) : hs \in SeqsUpTo(DiscoverHrefs, MaxLinks)}

DiscoverInit ==
  /\ \E site \in DiscoverSites, answer \in DiscoverAnswers, most \in DiscoverLimits :
       /\ world = [web |-> (ensure_scheme(site) :> answer), geos |-> {}]
       /\ arg = [website |-> site, max_pages |-> most]
  /\ pc = "call"
  /\ opts = <<>> /\ sites = <<>> /\ idx = 0 /\ records = <<>> /\ seen = <<>> /\ raised = FALSE
  /\ fn = "none"
  /\ ret = <<>>

\* find_pages_from_home(home_url, max_pages)
CallFindPagesFromHome ==
  /\ pc = "call"
  /\ Returned("find_pages_from_home",
              find_pages_from_home(world.web, arg.website, arg.max_pages))

DiscoverNext == CallFindPagesFromHome

SpecDiscover == DiscoverInit /\ [][DiscoverNext]_vars

\* the homepage of the call, what it answers and the links it holds
HomeOfCall == ensure_scheme(arg.website)
HomeAnswer == Get(world.web, HomeOfCall)
\* the conventional paths under the homepage of the call
ConventionalPages ==
  [i \in 1..Len(CANDIDATE_PATHS) |-> RStripSet(HomeOfCall, {"/"}) \o CANDIDATE_PATHS[i]]

\* C15: when the fetch of the homepage fails, page discovery returns normally and
\* every conventional path under the homepage is in the returned list, for
\* max_pages 10, 12 and 30.
C15_FailedHomepageGivesConventionalPaths ==
  (/\ fn = "find_pages_from_home" /\ ~HomeAnswer.ok
   /\ arg.max_pages \in {DefaultPages, SinglePages, AllPages}) =>
     /\ pc = "returned" /\ ~ret.exc
     /\ \A i \in DOMAIN ConventionalPages :
          \E j \in DOMAIN ret.pages : ret.pages[j] = ConventionalPages[i]

\* C16: the list returned by page discovery holds no URL twice and at most
\* max_pages URLs, for every homepage, every list of links and every max_pages
\* from 0 on.
C16_NoRepeatsAtMostMaxPages ==
  fn = "find_pages_from_home" =>
    /\ Len(ret.pages) <= arg.max_pages
    /\ \A i, j \in DOMAIN ret.pages : i # j => ret.pages[i] # ret.pages[j]

\* a homepage that links twice to its contact page, which is a conventional path
\* too: of the 16 different pages the first 12 are returned
C16_Witness ==
  /\ fn = "find_pages_from_home" /\ arg.max_pages = SinglePages
  /\ HomeAnswer = AnchorsOf(<<CONTACT, CONTACT>>)
  /\ Len(ret.pages) = SinglePages

\* the pages in the order of their discovery: the homepage, the links of the
\* homepage that the loop of app.py 119-126 took, the conventional paths
DiscoveryOrder ==
  AddCandidatePaths(FetchHome(world.web, HomeOfCall, arg.max_pages).pages, HomeOfCall)
\* where the URL is met first in the list
FirstAt(ps, url) == CHOOSE i \in DOMAIN ps : ps[i] = url /\ \A j \in 1..(i - 1) : ps[j] # url

\* C17: in the returned list every URL with a preferred keyword comes before
\* every URL without one, and two URLs of the same group are in the order in which
\* they were first discovered.
C17_PreferredFirstInDiscoveryOrder ==
  fn = "find_pages_from_home" =>
    \E preferred \in {[i \in DOMAIN ret.pages |-> IsPreferred(ret.pages[i])]} :
    \E first \in {[i \in DOMAIN ret.pages |-> FirstAt(DiscoveryOrder, ret.pages[i])]} :
      \A i, j \in DOMAIN ret.pages :
        i < j =>
          /\ preferred[j] => preferred[i]
          /\ (preferred[i] <=> preferred[j]) => first[i] < first[j]

\* a homepage with a plain link and a link to an about page: the about page
\* and the conventional paths come first, then the homepage and the plain link
C17_Witness ==
  /\ fn = "find_pages_from_home" /\ arg.website = ExampleCom /\ arg.max_pages = AllPages
  /\ HomeAnswer = AnchorsOf(<<LINKED, OtherOrgAbout>>)
  /\ Len(ret.pages) = Len(CANDIDATE_PATHS) + 3
  /\ ret.pages[1] = OtherOrgAbout
  /\ ret.pages[2] = UrlOf(ExampleCom, CONTACT)
  /\ ret.pages[Len(ret.pages) - 1] = HomeOf(ExampleCom)
  /\ ret.pages[Len(ret.pages)] = UrlOf(ExampleCom, LINKED)

\* the links of the homepage of the call, as written in the page
HomeHrefs == Hrefs(HomeAnswer)
\* the URL is on the site of the homepage of the call
SameSite(url) == DomainOf(url) = DomainOf(HomeOfCall)
\* the URL is a relative link of the homepage resolved against it, or an absolute
\* link of the homepage to its own site
KeptLink(url) ==
  \E k \in DOMAIN HomeHrefs :
    \/ /\ StartsWith(Strip(HomeHrefs[k]), <<"/">>)
       /\ url = RStripSet(HomeOfCall, {"/"}) \o Strip(HomeHrefs[k])
    \/ /\ StartsWith(Strip(HomeHrefs[k]), HTTP)
       /\ url = Strip(HomeHrefs[k])
       /\ SameSite(url)

\* C18: every URL that page discovery returns is the homepage, a conventional
\* path under it, a relative link of the homepage or an absolute link to the
\* site of the homepage; an absolute link to another site is never returned.
C18_OnlySameSiteLinks ==
  fn = "find_pages_from_home" =>
    \A i \in DOMAIN ret.pages :
      \/ ret.pages[i] = HomeOfCall
      \/ \E k \in DOMAIN ConventionalPages : ret.pages[i] = ConventionalPages[k]
      \/ KeptLink(ret.pages[i])

(***************************************************************************)
(* The order and the filter of single-result extraction                    *)
(***************************************************************************)
\* the page holds a candidate that the scan of app.py 174-197 returns
DirectCandidate(url) ==
  /\ Get(world.web, url).ok
  /\ \/ /\ FirstTag(AddressTexts(Get(world.web, url))) # <<>>
        /\ ~(/\ arg.prefer_hq
             /\ HasSalesKeyword(StrLower(FirstTag(AddressTexts(Get(world.web, url))))))
     \/ FirstLine(SplitLines(GetText(Get(world.web, url))),
                  LAMBDA l : AcceptPageLine(l, arg.prefer_hq)).found

\* C19: in single-result extraction no link found on a page is requested before
\* every discovered page was scanned, and when a discovered page holds a candidate
\* the result comes from a discovered page, never from a link of an earlier page.
C19_HopOnlyAfterAllPages ==
  fn = "extract_address_site" =>
    \E disc \in {{ensure_scheme(PagesOfCall[i]) : i \in DOMAIN PagesOfCall}} :
      /\ \A k, m \in DOMAIN ret.log :
           (/\ 1 < k /\ k < m
            /\ ret.log[k] \notin disc \cup {DDG_URL}
            /\ \A n \in 1..k : ret.log[n] # DDG_URL) => ret.log[m] \notin disc
      /\ (\E url \in disc : DirectCandidate(url)) => ret.page \in disc

\* Calls of single-result extraction on a site whose pages show a store line in
\* an address element, in a paragraph, on a linked page and on a search result,
\* alone or before a line without a sales keyword.
StoreThenOak == StoreLine \o <<"\n">> \o OakDrive
StoreThenLoop == StoreLine \o <<"\n">> \o InfiniteLoop
FilterContactAnswers ==
  {Fail, Page(<<Address(StoreLine), Anchor(LINKED)>>), Page(<<Para(StoreLine), Anchor(LINKED)>>),
   Page(<<Para(StoreThenOak)>>), Page(<<Address(StoreLine), Para(ElmAvenue)>>)}
FilterLinkedAnswers == {Fail, Page(<<Para(StoreLine)>>), Page(<<Para(StoreThenOak)>>)}
FilterResultAnswers == {Fail, Page(<<Para(StoreLine)>>), Page(<<Para(StoreThenLoop)>>)}
FilterWebs ==
  {WebOf(Fail, c, l, s, r) : c \in FilterContactAnswers, l \in FilterLinkedAnswers,
                             s \in SearchAnswers, r \in FilterResultAnswers}

FilterInit ==
  /\ world \in [web : FilterWebs, geos : {{}}]
  /\ pc = "call"
  /\ opts = <<>> /\ sites = <<>> /\ idx = 0 /\ records = <<>> /\ seen = <<>> /\ raised = FALSE
  /\ fn = "none"
  /\ arg \in [website : {ExampleCom, HomeOf(ExampleCom)}, prefer_hq : BOOLEAN]
  /\ ret = <<>>

FilterNext == CallExtractAddressSite

SpecFilter == FilterInit /\ [][FilterNext]_vars

\* the texts of a page that a scan can return: the texts of its address elements
\* and the lines of its text
SourceTexts(url) ==
  Range(AddressTexts(Get(world.web, url))) \cup Range(SplitLines(GetText(Get(world.web, url))))
\* the lower-cased text holds store, retail, dealer, franchise or outlet
SaidSalesKeyword(low) ==
  \E k \in {<<"s","t","o","r","e">>, <<"r","e","t","a","i","l">>, <<"d","e","a","l","e","r">>,
            <<"f","r","a","n","c","h","i","s","e">>, <<"o","u","t","l","e","t">>} :
    Contains(low, k)

\* C20: with prefer_hq set, what single-result extraction returns is the
\* normalized form of a text of the returned page that holds no store, retail,
\* dealer, franchise or outlet keyword, whichever stage found it; a text with such
\* a keyword is passed over.
C20_NoSalesCandidateWhenPreferHq ==
  (fn = "extract_address_site" /\ arg.prefer_hq /\ ret.page # <<>>) =>
    \E t \in SourceTexts(ret.page) :
      /\ normalize_text(t) = ret.raw
      /\ ~SaidSalesKeyword(StrLower(t))

\* the store line is passed over in the address element and in the text of the
\* contact page and on the linked page, whose next line is returned
C20_Witness ==
  /\ fn = "extract_address_site" /\ arg.prefer_hq
  /\ world.web[UrlOf(ExampleCom, CONTACT)] = Page(<<Address(StoreLine), Anchor(LINKED)>>)
  /\ world.web[UrlOf(ExampleCom, LINKED)] = Page(<<Para(StoreThenOak)>>)
  /\ ret.raw = normalize_text(OakDrive)
  /\ ret.page = UrlOf(ExampleCom, LINKED)

(***************************************************************************)
(* Calls of multi-result extraction with limits from 0 on.  The pages of   *)
(* the site show the same address twice, two addresses on two lines, or    *)
(* one address.                                                            *)
(***************************************************************************)
\* the largest limit of a call
MaxCollect == 2

CollectHomeAnswers == {Fail, Page(<<Address(InfiniteLoop)>>)}
CollectContactAnswers ==
  {Fail, Page(<<Anchor(LINKED)>>), Page(<<Para(TwoLines), Anchor(LINKED)>>),
   Page(<<Address(OakDrive), Para(StrUpper(OakDrive)), Anchor(LINKED)>>)}
CollectLinkedAnswers == {Fail, Page(<<Para(TwoLines)>>), Page(<<Para(InfiniteLoop)>>)}
CollectWebs ==
  {WebOf(h, c, l, s, r) : h \in CollectHomeAnswers, c \in CollectContactAnswers,
                          l \in CollectLinkedAnswers, s \in SearchAnswers, r \in ResultAnswers}

CollectInit ==
  /\ world \in [web : CollectWebs, geos : {{}}]
  /\ pc = "call"
  /\ opts = <<>> /\ sites = <<>> /\ idx = 0 /\ records = <<>> /\ seen = <<>> /\ raised = FALSE
  /\ fn = "none"
  /\ arg \in [website : {ExampleCom}, limit : 0..MaxCollect]
  /\ ret = <<>>

CollectNext == CallExtractAllAddressesSite

SpecCollect == CollectInit /\ [][CollectNext]_vars

\* C21: multi-result extraction returns at most `limit` pairs, no two of them
\* with the same normalized text, and the last request of a call that recorded
\* `limit` candidates is the request for the page of the last candidate.
C21_AtMostLimitDistinctTexts ==
  fn = "extract_all_addresses_site" =>
    /\ Len(ret.out) <= arg.limit
    /\ \A i, j \in DOMAIN ret.out : i # j => ret.out[i][1] # ret.out[j][1]
    /\ (arg.limit >= 1 /\ Len(ret.out) = arg.limit) =>
         ret.log[Len(ret.log)] = ret.out[arg.limit][2]

(***************************************************************************)
(* Calls of the parsers on texts with commas, semicolons and line breaks.  *)
(* The text is made of up to MaxSplit parts joined by ", ".                *)
(***************************************************************************)
\* most parts of a parsed text
MaxSplit == 3

OneMainStreet == <<"1"," ","M","a","i","n"," ","S","t","r","e","e","t">>
TX == <<"T","X">>
SuiteSemicolonEly == <<"S","u","i","t","e"," ","4",";"," ","E","l","y">>
LineBreakAB == <<"a","\n","b">>
SplitPool == {OneMainStreet, TX, Springfield, IL62704, SuiteSemicolonEly, LineBreakAB, Dashes}
SplitInputs == SeqsUpTo(SplitPool, MaxSplit)

SplitInit ==
  /\ world = <<>> /\ pc = "call"
  /\ opts = <<>> /\ sites = <<>> /\ idx = 0 /\ records = <<>> /\ seen = <<>> /\ raised = FALSE
  /\ fn = "none"
  /\ arg \in [parts : SplitInputs]
  /\ ret = <<>>

SplitNext == CallStandardizeAddressDict \/ CallStandardizeAddress

SpecSplit == SplitInit /\ [][SplitNext]_vars

\* the text that is parsed, and its comma-separated parts
RawOfCall == Join(<<",", " ">>, arg.parts)
CommaParts == SplitOn(RawOfCall, {","})

\* C22: a text with fewer than three comma-separated parts is parsed into an
\* address whose city, state and country are empty; "1 Main Street, TX" gets no
\* state and no country.
C22_FewPartsLeaveCityStateCountryEmpty ==
  fn \in {"standardize_address_dict", "standardize_address"} =>
    /\ Len(CommaParts) < 3 =>
         ret["CITY"] = <<>> /\ ret["STATE"] = <<>> /\ ret["COUNTRY"] = <<>>
    /\ arg.parts = <<OneMainStreet, TX>> => ret["STATE"] = <<>> /\ ret["COUNTRY"] = <<>>

\* "1 Main Street, TX" parsed by standardize_address_dict
C22_Witness ==
  /\ fn = "standardize_address_dict" /\ arg.parts = <<OneMainStreet, TX>>
  /\ ret["STREET ADDRESS 1"] = StrUpper(OneMainStreet) \o <<" ">> \o TX

\* the fields that a one-part text never fills
LaterFields == {"STREET ADDRESS 2", "CITY", "STATE", "PIN CODE", "COUNTRY"}

\* C23: the normalized text has no comma, semicolon or line break, so
\* standardize_address_dict sees one part at most: STREET ADDRESS 2, CITY,
\* STATE, PIN CODE and COUNTRY are empty for every input, and the confidence
\* score of the parsed address is 0 or 40.
C23_NormalizedTextIsOnePart ==
  fn = "standardize_address_dict" =>
    /\ \A i \in DOMAIN normalize_text(RawOfCall) :
         normalize_text(RawOfCall)[i] \notin {",", ";", "\n"}
    /\ \A f \in LaterFields : ret[f] = <<>>
    /\ calculate_confidence(ret) \in {0, 40}

\* a street, a city and a ZIP code separated by commas, parsed into one line
C23_Witness ==
  /\ fn = "standardize_address_dict"
  /\ arg.parts = <<OneMainStreet, Springfield, IL62704>>
  /\ Len(CommaParts) = 3
  /\ ret["STREET ADDRESS 1"] # <<>> /\ ret["PIN CODE"] = <<>>
  /\ calculate_confidence(ret) = 40

(***************************************************************************)
(* Records without an address in a batch run                               *)
(***************************************************************************)
\* the five fields of the fingerprint are empty
EmptyTuple(rec) == \A i \in DOMAIN HashKeys : rec[HashKeys[i]] = <<>>
\* the fingerprint of five empty fields: md5 of "||||"
EmptyFingerprint == hash_address([f \in Range(HashKeys) |-> <<>>])

\* C24: the records whose five fingerprint fields are empty (nothing extracted,
\* nothing filled by enrichment) all have the fingerprint of "||||"; the first of
\* them in a run has DUPLICATE FLAG "NO", every later one has DUPLICATE FLAG
\* "YES" and the MASTER RECORD ID of the first.
C24_EmptyRecordsAreDuplicates ==
  \A j \in DOMAIN records : EmptyTuple(records[j]) =>
    /\ hash_address(records[j]) = EmptyFingerprint
    /\ hash_key(records[j]) = <<"|", "|", "|", "|">>
    /\ (\A i \in 1..(j - 1) : ~EmptyTuple(records[i])) =>
         /\ records[j]["DUPLICATE FLAG"] = "NO"
         /\ records[j]["MASTER RECORD ID"] = Prefix8(EmptyFingerprint)
    /\ \A i \in 1..(j - 1) : EmptyTuple(records[i]) =>
         /\ records[j]["DUPLICATE FLAG"] = "YES"
         /\ records[j]["MASTER RECORD ID"] = records[i]["MASTER RECORD ID"]

\* two companies without an address, the second flagged as duplicate of the first
C24_Witness ==
  /\ pc = "done" /\ Len(records) >= 2
  /\ EmptyTuple(records[1]) /\ EmptyTuple(records[2])
  /\ records[1]["DATA SOURCE LINK"] # records[2]["DATA SOURCE LINK"]
  /\ records[1]["DUPLICATE FLAG"] = "NO" /\ records[2]["DUPLICATE FLAG"] = "YES"

(***************************************************************************)
(* Calls of page discovery and of single-result extraction on a site whose *)
(* homepage alone shows an address element.  A request for the homepage    *)
(* with the path "/" or with a fragment is a request for the homepage:     *)
(* these URLs answer what the homepage answers.                            *)
(***************************************************************************)
ROOT == <<"/">>
FragmentContact == <<"/","#","c","o","n","t","a","c","t">>

HomepageAnswers ==
  {Fail} \cup {Page(<<Address(text)>> \o links) :
                 text \in {Ely, InfiniteLoop},
                 links \in {<<>>, <<Anchor(ROOT)>>, <<Anchor(LINKED)>>, <<Anchor(FragmentContact)>>}}
HomepageContactAnswers == {Fail, Page(<<Anchor(ROOT)>>)}
HomepageLimits == {0, 1, SinglePages, Len(CANDIDATE_PATHS), Len(CANDIDATE_PATHS) + 1}

\* the web of a site whose homepage answers `home` and whose contact page answers
\* `contact`
HomepageWeb(site, home, contact) ==
  (ensure_scheme(site) :> home)
  @@ (RStripSet(ensure_scheme(site), {"/"}) \o ROOT :> home)
  @@ (RStripSet(ensure_scheme(site), {"/"}) \o FragmentContact :> home)
  @@ (RStripSet(ensure_scheme(site), {"/"}) \o CONTACT :> contact)

HomepageInit ==
  /\ \E site \in DiscoverSites, home \in HomepageAnswers, contact \in HomepageContactAnswers :
       /\ world = [web |-> HomepageWeb(site, home, contact), geos |-> {}]
       /\ \E most \in HomepageLimits, hq \in BOOLEAN :
            arg = [website |-> site, max_pages |-> most, prefer_hq |-> hq]
  /\ pc = "call"
  /\ opts = <<>> /\ sites = <<>> /\ idx = 0 /\ records = <<>> /\ seen = <<>> /\ raised = FALSE
  /\ fn = "none"
  /\ ret = <<>>

HomepageNext == CallFindPagesFromHome \/ CallExtractAddressSite

SpecHomepage == HomepageInit /\ [][HomepageNext]_vars

\* the text of the first address element of the page
BlockText(url) == FirstTag(AddressTexts(Get(world.web, url)))
\* the result is the text of the address element of the returned page, and no
\* line of that page is a candidate of the text scan
TakenFromBlock ==
  /\ ret.page # <<>>
  /\ BlockText(ret.page) # <<>>
  /\ ret.raw = normalize_text(BlockText(ret.page))
  /\ ~FirstLine(SplitLines(GetText(Get(world.web, ret.page))),
                LAMBDA l : is_strict_address_candidate(Strip(l))).found

\* C25: page discovery meets at least 15 different URLs with a preferred
\* keyword, so for max_pages up to 15 every returned URL has a preferred keyword;
\* a homepage whose URL has no preferred keyword is not among the 12 pages of
\* single-result extraction, and an address element that only the homepage shows
\* is never returned as the address block of a page.
C25_HomepageBlockNeverTaken ==
  /\ fn = "find_pages_from_home" =>
       /\ Cardinality({DiscoveryOrder[i] : i \in {j \in DOMAIN DiscoveryOrder :
                                                   IsPreferred(DiscoveryOrder[j])}})
            >= 15
       /\ arg.max_pages <= 15 => \A i \in DOMAIN ret.pages : IsPreferred(ret.pages[i])
       /\ (arg.max_pages = SinglePages /\ ~IsPreferred(HomeOfCall)) =>
            \A i \in DOMAIN ret.pages : ret.pages[i] # HomeOfCall
  /\ (fn = "extract_address_site" /\ ~IsPreferred(HomeOfCall)) => ~TakenFromBlock

(***************************************************************************)
(* The requests of single-result extraction.  The contact page and the     *)
(* about page hold one link more than the crawl follows, the search page   *)
(* one result more than the fallback fetches.                              *)
(***************************************************************************)
CostDigits == <<"1","2","3","4","5","6","7">>
CostLinks == [k \in 1..(LinksPerPage + 1) |-> <<"/","l">> \o <<CostDigits[k]>>]
CostResults == [k \in 1..(SearchResults + 1) |-> UrlOf(ExampleCom, <<"/","r">> \o <<CostDigits[k]>>)]
ABOUT == CANDIDATE_PATHS[3]

CostHomeAnswers == {Fail, AnchorsOf(CostLinks)}
CostContactAnswers ==
  {Fail, AnchorsOf(CostLinks), AnchorsOf(<<CostLinks[1], ABOUT>> \o CostLinks),
   Page(<<Para(OakDrive)>>)}
CostAboutAnswers == {Fail, AnchorsOf(CostLinks), AnchorsOf(<<CostLinks[7], CostLinks[1]>>)}
CostSearchAnswers == {Fail, AnchorsOf(CostResults)}
\* which link and which result shows an address: 0 for none
CostLinkHits == {0, 1, LinksPerPage, LinksPerPage + 1}
CostResultHits == {0, 1, SearchResults, SearchResults + 1}

Shows(hit, k) == IF hit = k THEN Page(<<Para(OakDrive)>>) ELSE Page(<<>>)

CostWeb(home, contact, about, link, search, result) ==
  (HomeOf(ExampleCom) :> home) @@ (UrlOf(ExampleCom, CONTACT) :> contact)
  @@ (UrlOf(ExampleCom, ABOUT) :> about) @@ (DDG_URL :> search)
  @@ [u \in {UrlOf(ExampleCom, CostLinks[k]) : k \in DOMAIN CostLinks} |->
        Shows(link, CHOOSE k \in DOMAIN CostLinks : u = UrlOf(ExampleCom, CostLinks[k]))]
  @@ [u \in Range(CostResults) |->
        Shows(result, CHOOSE k \in DOMAIN CostResults : u = CostResults[k])]

CostInit ==
  /\ \E home \in CostHomeAnswers, contact \in CostContactAnswers, about \in CostAboutAnswers,
        link \in CostLinkHits, search \in CostSearchAnswers, result \in CostResultHits :
       world = [web |-> CostWeb(home, contact, about, link, search, result), geos |-> {}]
  /\ pc = "call"
  /\ opts = <<>> /\ sites = <<>> /\ idx = 0 /\ records = <<>> /\ seen = <<>> /\ raised = FALSE
  /\ fn = "none"
  /\ arg \in [website : {ExampleCom}, prefer_hq : BOOLEAN]
  /\ ret = <<>>

CostNext == CallExtractAddressSite

SpecCost == CostInit /\ [][CostNext]_vars

\* the requests for the search page, and the end of the crawl in the log: the
\* request before the first one for the search page, the last request without one
SearchAt == {k \in DOMAIN ret.log : ret.log[k] = DDG_URL}
CrawlEnd == IF SearchAt = {} THEN Len(ret.log) ELSE (CHOOSE k \in SearchAt : \A m \in SearchAt : k <= m) - 1
\* the longest run of requests for pages that were not discovered, in the crawl
HopRun(disc, k) ==
  Cardinality({m \in 2..k : \A n \in m..k : ret.log[n] \notin disc})

\* C26: a call of single-result extraction ends.  After the request for the
\* homepage the crawl requests no URL twice, at most 12 discovered pages and at
\* most 6 links after each page; the search page is requested at most once, only
\* after every discovered page was requested and nothing was returned; at most 6
\* results are requested; the request for the returned page is the last one; in
\* all there are at most 1 + 12 + 12*6 + 1 + 6 requests.
C26_BoundedRequests ==
  fn = "extract_address_site" =>
    \E disc \in {Range(PagesOfCall)} : \E end \in {CrawlEnd} :
      /\ pc = "returned"
      /\ ret.log[1] = HomeOfCall
      /\ \A k, m \in 2..end : k # m => ret.log[k] # ret.log[m]
      /\ Cardinality({k \in 2..end : ret.log[k] \in disc}) <= 12
      /\ \A k \in 2..end : HopRun(disc, k) <= 6
      /\ Cardinality(SearchAt) <= 1
      /\ SearchAt # {} =>
           /\ \A p \in disc : \E k \in 2..end : ret.log[k] = p
           /\ ret.page # <<>> => \E k \in (end + 2)..Len(ret.log) : ret.log[k] = ret.page
           /\ Len(ret.log) - (end + 1) <= 6
      /\ ret.page # <<>> => ret.log[Len(ret.log)] = ret.page
      /\ Len(ret.log) <= 1 + 12 + 12 * 6 + 1 + 6

\* nothing is found: the homepage, 12 pages, 6 of the 7 links of the contact page,
\* the 7th link and the 1st from the about page, the search page and 6 of its 7
\* results are requested
C26_Witness ==
  /\ fn = "extract_address_site" /\ ret.page = <<>>
  /\ Get(world.web, UrlOf(ExampleCom, CONTACT)) = AnchorsOf(CostLinks)
  /\ Get(world.web, UrlOf(ExampleCom, ABOUT)) = AnchorsOf(<<CostLinks[7], CostLinks[1]>>)
  /\ Len(ret.log) = 1 + 12 + 6 + 1 + 1 + 6

\* C27: enrich_with_nominatim calls the service only for a record that has a
\* street line 1 or a city; a record whose street line 1, city, state and country
\* are empty is returned unchanged without a request.
C27_NoRequestWithoutStreetOrCity ==
  fn = "enrich_with_nominatim" =>
    /\ nominatim_called(arg.record) =>
         arg.record["STREET ADDRESS 1"] # <<>> \/ arg.record["CITY"] # <<>>
    /\ (\A k \in {"STREET ADDRESS 1", "CITY", "STATE", "COUNTRY"} : arg.record[k] = <<>>) =>
         ~nominatim_called(arg.record) /\ ret = arg.record
====
